---- MODULE Spec2Model ----
(***************************************************************************)
(* A model of the browser agent: the tool-calling conversation loop        *)
(* (agent/agent_graph.py, AgentExecutor.invoke) with its Session Memory    *)
(* collaborator (agent/memory.py) and the tool wrapper (agent/tools.py).   *)
(* The browser tools are modelled on the process-wide snapshot            *)
(* (browser/analyzers/page_analyzer.py) and the cursor                    *)
(* (browser/controllers/element_controller.py).                           *)
(*                                                                         *)
(* Strings are modelled by what the code builds them from: a formatted     *)
(* string is a record naming its format and the values interpolated into   *)
(* it, so that two strings are equal exactly when format and values agree. *)
(***************************************************************************)
EXTENDS Integers, Sequences, FiniteSets, TLC

\* ------------------------------------------------------------------ bounds

\* The largest number of records of a snapshot.
MaxElements == 2

\* The largest iteration ceiling (max_iterations) an executor is built with.
MaxIterations == 2

\* The longest history explored: a response carries tool calls only while the
\* history has room for the response and one tool message per call.
MaxHistory == 7

\* The capacity (max_conversation_size) of the session memory that is called
\* directly.
MemorySize == 3

\* The largest number of memory calls made on it.
MaxCalls == 4

\* The largest number of keys of a key sequence.
MaxKeys == 3

\* The largest scroll offset of a page, in pixels.
MaxScrollY == 12

\* ------------------------------------------------------- program constants

\* SessionMemory(max_conversation_size = 100): capacity of conversation.messages
\* and of conversation.task_history.
MaxConversationSize == 100

\* get_for_llm(include_recent_messages = 5), as AgentExecutor.invoke calls it.
IncludeRecentMessages == 5

\* The distance from an edge of the page, in pixels, within which scroll takes
\* the page to be at that edge.
ScrollTolerance == 10

\* ------------------------------------------------------------ input domains

\* The text of an assistant response.
Texts == {"t1", "t2"}

\* The names of the tools the executor was built with (tool_map's keys).
RegisteredTools == {"click"}

\* The names a tool call may carry: a registered one and one that is not.
ToolNames == RegisteredTools \cup {"bogus"}

\* The arguments of a tool call: a mapping that fits the tool's parameters, or
\* anything that does not (a wrong key, a missing key, not a mapping at all).
ArgKinds == {"fit", "misfit"}

\* The task the caller hands to invoke.
InputText == "task"

None == [k |-> "None"]

VARIABLES
    max_iterations,     \* self.max_iterations
    memory,             \* self.memory is attached (TRUE) or None (FALSE)
    conv_messages,      \* self.memory.conversation.messages
    task_history,       \* self.memory.conversation.task_history
    interaction_count,  \* self.memory.context.context["interaction_count"]
    messages,           \* invoke's local list `messages` (the history)
    iteration,          \* invoke's local counter
    pc,                 \* where invoke stands
    response,           \* the assistant message of the current iteration
    tool_idx,           \* position of the for loop in response.tool_calls
    result,             \* what invoke returned (None before it returns)
    outcome,            \* how invoke ended
    llm_calls,          \* number of llm.invoke calls made by this invocation
    llm_seen,           \* the history each llm.invoke call was handed, in order
    tool_invocations,   \* the call-ids for which tool.invoke was called, in order
    memory_reads,       \* number of get_for_llm calls made by this invocation
    exchanges,          \* the memory calls made, in order: the add_exchange calls
                        \* of this invocation, or the calls made directly
    conv_start,         \* conversation.messages as this invocation found it
    stream,             \* the locals of AgentExecutor.stream (messages, iteration,
                        \* response, results) and what its run did
    page_elements,      \* page_analyzer.page_elements, the process-wide snapshot
    cursor,             \* element_controller.current_x, current_y
    click_log,          \* what the last browser call did, when it was a click
    tool_result,        \* the string the last browser tool returned
    focus,              \* the tag of the page's active element
    input_log           \* what the last browser call did, when it was a type
                        \* or a select_option

loopVars == <<max_iterations, messages, iteration, pc, response, tool_idx,
              result, outcome, llm_calls, llm_seen, tool_invocations,
              memory_reads, exchanges, conv_start, stream>>
memVars == <<memory, conv_messages, task_history, interaction_count>>
browserVars == <<page_elements, cursor, click_log, tool_result, focus, input_log>>
vars == <<loopVars, memVars, browserVars>>

\* ---------------------------------------------------------------- messages

\* The text of an assistant response, as a string.
Text(t) == [fmt |-> "text", s |-> t]

SystemMessage(content) == [role |-> "system", content |-> content]
HumanMessage(content) == [role |-> "user", content |-> content]
AIMessage(content, tool_calls) ==
    [role |-> "assistant", content |-> content, tool_calls |-> tool_calls]
ToolMessage(content, tool_call_id) ==
    [role |-> "tool", content |-> content, tool_call_id |-> tool_call_id]

\* ------------------------------------------------------------ Session Memory

\* Memory.add_message with pop() for pop(0): the newest entry is evicted.
AddMessageEvictNewest(msgs, role, content, tool_calls, max_size) ==
    LET appended == Append(msgs, [role |-> role, content |-> content,
                                  tool_calls |-> tool_calls])
    IN  IF Len(appended) > max_size
        THEN SubSeq(appended, 1, Len(appended) - 1)
        ELSE appended

\* Memory.add_message: append, then evict the oldest entry past max_size.
AddMessage(msgs, role, content, tool_calls, max_size) ==
    LET appended == Append(msgs, [role |-> role, content |-> content,
                                  tool_calls |-> tool_calls])
    IN  IF Len(appended) > max_size THEN Tail(appended) ELSE appended

\* Memory.add_base_message: the tool calls are kept for an assistant message.
AddBaseMessage(msgs, msg, max_size) ==
    AddMessage(msgs, msg.role, msg.content,
               IF msg.role = "assistant" THEN msg.tool_calls ELSE <<>>,
               max_size)

\* ConversationMemory.add_task
AddTask(history, task, res, success, max_size) ==
    LET appended == Append(history, [task |-> task, result |-> res,
                                     success |-> success])
    IN  IF Len(appended) > max_size THEN Tail(appended) ELSE appended

\* SessionMemory.add_exchange on the memory state mem of a session memory of
\* capacity max_size: two messages, one task record when a task result is
\* given, one more interaction.
AddExchangeTo(mem, human_input, ai_response, task_result, max_size) ==
    [messages |->
        AddMessage(AddMessage(mem.messages, "user", human_input, <<>>, max_size),
                   "assistant", ai_response, <<>>, max_size),
     task_history |->
        IF task_result # None
        THEN AddTask(mem.task_history, human_input, ai_response,
                     task_result.success, max_size)
        ELSE mem.task_history,
     interaction_count |-> mem.interaction_count + 1]

\* add_exchange called without a task result.
AddExchangeNoTask(mem, human_input, ai_response, success) ==
    AddExchangeTo(mem, human_input, ai_response, None, MaxConversationSize)

\* add_exchange as AgentExecutor.invoke calls it, with
\* task_result = {"success": success}.
AddExchange(mem, human_input, ai_response, success) ==
    AddExchangeTo(mem, human_input, ai_response, [success |-> success],
                  MaxConversationSize)

\* ConversationMemory.get_successful_tasks
GetSuccessfulTasks(history) == SelectSeq(history, LAMBDA t : t.success)

\* Memory.get_last_n_messages with messages[:n], the oldest n.
GetFirstNMessages(msgs, n) ==
    IF Len(msgs) >= n THEN SubSeq(msgs, 1, n) ELSE msgs

\* Memory.get_last_n_messages: messages[-n:], which is the whole list for
\* n = 0.
GetLastNMessages(msgs, n) ==
    IF Len(msgs) >= n
    THEN IF n = 0 THEN msgs ELSE SubSeq(msgs, Len(msgs) - n + 1, Len(msgs))
    ELSE msgs

\* Memory.get_context_window: one "ROLE: content" line per recent message
\* (the empty sequence is the empty string).
GetContextWindow(msgs, max_messages) ==
    LET recent == GetLastNMessages(msgs, max_messages)
    IN  [i \in 1..Len(recent) |->
            [role |-> recent[i].role, content |-> recent[i].content]]

\* SessionMemory.get_for_llm: interactions, the number of successful tasks
\* (the line is left out when there is none) and the recent conversation.
GetForLLM(mem, include_recent_messages) ==
    [interactions |-> mem.interaction_count,
     successful |-> Len(GetSuccessfulTasks(mem.task_history)),
     recent |-> GetContextWindow(mem.messages, include_recent_messages)]

\* The memory as one value.
Mem == [messages |-> conv_messages, task_history |-> task_history,
        interaction_count |-> interaction_count]

SetMem(mem) ==
    /\ conv_messages' = mem.messages
    /\ task_history' = mem.task_history
    /\ interaction_count' = mem.interaction_count

EmptyMem == [messages |-> <<>>, task_history |-> <<>>, interaction_count |-> 0]

\* ------------------------------------------------------- inference backend

\* The id the provider gives the pos-th tool call of its turn-th response:
\* provider-issued call ids are distinct.
CallId(turn, pos) == [turn |-> turn, pos |-> pos]

\* What a tool call names and carries (the arguments of a call to an
\* unregistered tool are never read).
CallShapes ==
    {[name |-> "click", args |-> "fit"],
     [name |-> "click", args |-> "misfit"],
     [name |-> "bogus", args |-> "fit"]}

\* The tool-call lists of 1..room entries a response may carry; each entry is
\* the record {"id", "name", "args"} the providers build.
ToolCallLists(turn, room) ==
    UNION {{[i \in 1..n |-> [id |-> CallId(turn, i), name |-> f[i].name,
                              args |-> f[i].args]] :
                f \in [1..n -> CallShapes]} : n \in 1..room}

\* The number of tool calls the history has room for after one more response.
Room(history) == MaxHistory - Len(history) - 1

\* What Tool.invoke(args) does: func(**args) raises TypeError when the
\* arguments do not fit the parameters; otherwise the tool function returns a
\* value or raises.
ToolInvoke(args) ==
    IF args = "misfit"
    THEN {[raised |-> TRUE, v |-> "TypeError"]}
    ELSE {[raised |-> FALSE, v |-> "ok"], [raised |-> TRUE, v |-> "RuntimeError"]}

\* ---------------------------------------------------- AgentExecutor.invoke

\* system_content: the static prompt, plus the memory context when a memory
\* is attached and its conversation is not empty (get_for_llm is never empty).
SystemContent ==
    IF memory /\ conv_messages # <<>>
    THEN [fmt |-> "system_prompt+memory",
          ctx |-> GetForLLM(Mem, IncludeRecentMessages)]
    ELSE [fmt |-> "system_prompt"]

\* The seeded history.
InitialMessages ==
    <<SystemMessage(SystemContent), HumanMessage(Text(InputText))>>

\* The loop with an off-by-one ceiling: one iteration too many.
LoopContinuesInclusive(it, max) == it <= max

\* while iteration < self.max_iterations
LoopContinues(it, max) == it < max

\* The backend handed a window of the history instead of all of it.
LLMInputWindow(history) ==
    IF Len(history) > 2 THEN SubSeq(history, Len(history) - 1, Len(history))
    ELSE history

\* What llm.invoke(messages) is handed.
LLMInput(history) == history

\* f"Max iterations ({self.max_iterations}) reached without completion"
FinalMessage(n) == [fmt |-> "Max iterations (n) reached without completion",
                    n |-> n]

\* str(result)
Str(v) == [fmt |-> "str", s |-> v]

\* f"Error executing {tool_name}: {str(e)}"
ErrorExecuting(tool_name, e) ==
    [fmt |-> "Error executing name: e", name |-> tool_name, e |-> e]

\* f"Tool {tool_name} not found"
ToolNotFound(tool_name) == [fmt |-> "Tool name not found", name |-> tool_name]

\* The returned record with the text of the first response as its output.
ResultFirstResponse(output, history) ==
    [input |-> Text(InputText),
     output |-> IF Len(history) >= 3 THEN history[3].content ELSE output,
     messages |-> history]

\* The returned record.
Result(output, history) ==
    [input |-> Text(InputText), output |-> output, messages |-> history]

\* The memory after the response was stored (add_base_message), if attached.
StoreResponse(r) ==
    IF memory
    THEN [Mem EXCEPT !.messages =
              AddBaseMessage(Mem.messages, r, MaxConversationSize)]
    ELSE Mem

\* invoke up to the loop: read the memory context, seed the history.
Invoke ==
    /\ UNCHANGED <<browserVars, stream>>
    /\ pc = "idle"
    /\ memory_reads' = IF memory THEN memory_reads + 1 ELSE memory_reads
    /\ messages' = InitialMessages
    /\ conv_start' = conv_messages
    /\ iteration' = 0
    /\ pc' = "loop"
    /\ UNCHANGED <<max_iterations, response, tool_idx, result, outcome,
                   llm_calls, llm_seen, tool_invocations, exchanges, memVars>>

\* One iteration whose response carries no tool call: the response is
\* appended and stored, the exchange is recorded, invoke returns.
AssistantFinal ==
    /\ UNCHANGED <<browserVars, stream>>
    /\ pc = "loop"
    /\ LoopContinues(iteration, max_iterations)
    /\ \E t \in Texts :
        LET r == AIMessage(Text(t), <<>>)
            history == Append(messages, r)
            stored == StoreResponse(r)
        IN  /\ iteration' = iteration + 1
            /\ llm_calls' = llm_calls + 1
            /\ llm_seen' = Append(llm_seen, LLMInput(messages))
            /\ messages' = history
            /\ response' = r
            /\ IF memory
               THEN /\ SetMem(AddExchange(stored, Text(InputText), r.content, TRUE))
                    /\ exchanges' = Append(exchanges,
                           [human_input |-> Text(InputText),
                            ai_response |-> r.content, success |-> TRUE])
               ELSE UNCHANGED <<conv_messages, task_history,
                                interaction_count, exchanges>>
            /\ result' = Result(r.content, history)
            /\ outcome' = "DONE"
            /\ pc' = "returned"
    /\ UNCHANGED <<max_iterations, memory, tool_idx, tool_invocations,
                   memory_reads, conv_start>>

\* One iteration whose response carries tool calls: the response is appended
\* and stored, and the for loop over its tool calls starts.
AssistantToolCalls ==
    /\ UNCHANGED <<browserVars, stream>>
    /\ pc = "loop"
    /\ LoopContinues(iteration, max_iterations)
    /\ \E t \in Texts, calls \in ToolCallLists(llm_calls + 1, Room(messages)) :
        LET r == AIMessage(Text(t), calls)
        IN  /\ iteration' = iteration + 1
            /\ llm_calls' = llm_calls + 1
            /\ llm_seen' = Append(llm_seen, LLMInput(messages))
            /\ messages' = Append(messages, r)
            /\ response' = r
            /\ SetMem(StoreResponse(r))
            /\ tool_idx' = 1
            /\ pc' = "tools"
    /\ UNCHANGED <<max_iterations, memory, result, outcome, tool_invocations,
                   memory_reads, exchanges, conv_start>>

\* The tool message carrying the id of the turn's first call.
ToolResultMessageFirstId(tool_call, o) ==
    IF o.raised
    THEN ToolMessage(ErrorExecuting(tool_call.name, o.v), response.tool_calls[1].id)
    ELSE ToolMessage(Str(o.v), response.tool_calls[1].id)

\* The tool message that reports an exception as if it were the result.
ToolResultMessageSwallow(tool_call, o) == ToolMessage(Str(o.v), tool_call.id)

\* The tool message one tool call yields, given what the tool did.
ToolResultMessage(tool_call, o) ==
    IF o.raised
    THEN ToolMessage(ErrorExecuting(tool_call.name, o.v), tool_call.id)
    ELSE ToolMessage(Str(o.v), tool_call.id)

\* An unknown name answered as if the tool had run.
NotFoundMessageAsResult(tool_call) == ToolMessage(Str("ok"), tool_call.id)

\* The tool message for a name that is not in tool_map.
NotFoundMessage(tool_call) ==
    ToolMessage(ToolNotFound(tool_call.name), tool_call.id)

\* The for loop moves to the next tool call, or the while loop goes on.
AdvanceToolLoop ==
    IF tool_idx < Len(response.tool_calls)
    THEN /\ tool_idx' = tool_idx + 1
         /\ pc' = "tools"
    ELSE /\ tool_idx' = 0
         /\ pc' = "loop"

\* One pass of the for loop on a registered tool.
ToolCallRegistered ==
    /\ UNCHANGED <<browserVars, stream>>
    /\ pc = "tools"
    /\ LET tool_call == response.tool_calls[tool_idx]
       IN  /\ {"name", "args", "id"} \subseteq DOMAIN tool_call
           /\ tool_call.name \in RegisteredTools
           /\ \E o \in ToolInvoke(tool_call.args) :
                messages' = Append(messages, ToolResultMessage(tool_call, o))
           /\ tool_invocations' = Append(tool_invocations, tool_call.id)
    /\ AdvanceToolLoop
    /\ UNCHANGED <<max_iterations, iteration, response, result, outcome,
                   llm_calls, llm_seen, memory_reads, exchanges, conv_start,
                   memVars>>

\* One pass of the for loop on a name that is not in tool_map.
ToolCallUnknown ==
    /\ UNCHANGED <<browserVars, stream>>
    /\ pc = "tools"
    /\ LET tool_call == response.tool_calls[tool_idx]
       IN  /\ {"name", "args", "id"} \subseteq DOMAIN tool_call
           /\ tool_call.name \notin RegisteredTools
           /\ messages' = Append(messages, NotFoundMessage(tool_call))
    /\ AdvanceToolLoop
    /\ UNCHANGED <<max_iterations, iteration, response, result, outcome,
                   llm_calls, llm_seen, tool_invocations, memory_reads,
                   exchanges, conv_start, memVars>>

\* The while condition fails: the fixed message is recorded and returned.
MaxIterationsReached ==
    /\ UNCHANGED <<browserVars, stream>>
    /\ pc = "loop"
    /\ ~LoopContinues(iteration, max_iterations)
    /\ LET final_message == FinalMessage(max_iterations)
       IN  /\ IF memory
              THEN /\ SetMem(AddExchange(Mem, Text(InputText), final_message, FALSE))
                   /\ exchanges' = Append(exchanges,
                          [human_input |-> Text(InputText),
                           ai_response |-> final_message, success |-> FALSE])
              ELSE UNCHANGED <<conv_messages, task_history,
                               interaction_count, exchanges>>
           /\ result' = Result(final_message, messages)
    /\ outcome' = "MAX_ITERATIONS_REACHED"
    /\ pc' = "returned"
    /\ UNCHANGED <<max_iterations, memory, messages, iteration, response,
                   tool_idx, llm_calls, llm_seen, tool_invocations,
                   memory_reads, conv_start>>

\* AgentExecutor.stream before it is called.
StreamIdle ==
    [pc |-> "idle", messages |-> <<>>, iteration |-> 0, response |-> None,
     tool_idx |-> 0, results |-> <<>>, llm_seen |-> <<>>,
     tool_invocations |-> <<>>, mem |-> None]

\* The memory a second invocation finds: the one left by an invocation that
\* ended at its first response.
PriorMem ==
    AddExchange([EmptyMem EXCEPT !.messages =
                    AddBaseMessage(<<>>, AIMessage(Text("t1"), <<>>),
                                   MaxConversationSize)],
                Text(InputText), Text("t1"), TRUE)

LoopInit ==
    /\ max_iterations \in 0..MaxIterations
    /\ memory \in BOOLEAN
    /\ \E mem \in (IF memory THEN {EmptyMem, PriorMem} ELSE {EmptyMem}) :
        /\ conv_messages = mem.messages
        /\ task_history = mem.task_history
        /\ interaction_count = mem.interaction_count
    /\ messages = <<>>
    /\ iteration = 0
    /\ pc = "idle"
    /\ response = None
    /\ tool_idx = 0
    /\ result = None
    /\ outcome = "none"
    /\ llm_calls = 0
    /\ llm_seen = <<>>
    /\ tool_invocations = <<>>
    /\ memory_reads = 0
    /\ exchanges = <<>>
    /\ conv_start = <<>>
    /\ stream = StreamIdle

\* The module globals as the import leaves them: no snapshot, the cursor at
\* (100, 100).
BrowserInit ==
    /\ page_elements = <<>>
    /\ cursor = <<100, 100>>
    /\ click_log = None
    /\ tool_result = None
    /\ focus = "BODY"
    /\ input_log = None

Init == LoopInit /\ BrowserInit

Next ==
    \/ Invoke
    \/ AssistantFinal
    \/ AssistantToolCalls
    \/ ToolCallRegistered
    \/ ToolCallUnknown
    \/ MaxIterationsReached

\* The loop driven by the providers of agent/llm_providers.py, which return an
\* assistant message on every path.
Spec == Init /\ [][Next]_vars

\* --------------------------------------- the loop behind an arbitrary backend

\* AgentExecutor takes any llm (llm: Any).  LLMBase.invoke raises
\* NotImplementedError, and nothing in invoke catches what llm.invoke raises.
LLMRaises ==
    /\ UNCHANGED <<browserVars, stream>>
    /\ pc = "loop"
    /\ LoopContinues(iteration, max_iterations)
    /\ iteration' = iteration + 1
    /\ llm_calls' = llm_calls + 1
    /\ llm_seen' = Append(llm_seen, LLMInput(messages))
    /\ outcome' = "EXCEPTION"
    /\ pc' = "raised"
    /\ UNCHANGED <<max_iterations, messages, response, tool_idx, result,
                   tool_invocations, memory_reads, exchanges, conv_start,
                   memVars>>

\* A response whose tool-call record lacks the "name" key: it is appended and
\* stored like any other, and the for loop starts.
AssistantMalformed ==
    /\ UNCHANGED <<browserVars, stream>>
    /\ pc = "loop"
    /\ LoopContinues(iteration, max_iterations)
    /\ Room(messages) >= 0
    /\ \E t \in Texts :
        LET r == AIMessage(Text(t), <<[id |-> CallId(llm_calls + 1, 1),
                                       args |-> "fit"]>>)
        IN  /\ iteration' = iteration + 1
            /\ llm_calls' = llm_calls + 1
            /\ llm_seen' = Append(llm_seen, LLMInput(messages))
            /\ messages' = Append(messages, r)
            /\ response' = r
            /\ SetMem(StoreResponse(r))
            /\ tool_idx' = 1
            /\ pc' = "tools"
    /\ UNCHANGED <<max_iterations, memory, result, outcome, tool_invocations,
                   memory_reads, exchanges, conv_start>>

\* tool_call["name"] (or ["args"], ["id"]) on a record without that key raises
\* KeyError outside the try block: invoke is left by the exception.
ToolCallKeyError ==
    /\ UNCHANGED <<browserVars, stream>>
    /\ pc = "tools"
    /\ ~({"name", "args", "id"} \subseteq DOMAIN response.tool_calls[tool_idx])
    /\ outcome' = "EXCEPTION"
    /\ pc' = "raised"
    /\ UNCHANGED <<max_iterations, messages, iteration, response, tool_idx,
                   result, llm_calls, llm_seen, tool_invocations, memory_reads,
                   exchanges, conv_start, memVars>>

NextAnyLLM ==
    \/ Next
    \/ LLMRaises
    \/ AssistantMalformed
    \/ ToolCallKeyError

\* The loop driven by any backend object.
SpecAnyLLM == Init /\ [][NextAnyLLM]_vars

\* ------------------------------------------- the providers' failure path

\* How a provider call fails inside the provider's try block: the API call
\* raises, or json.loads raises on the arguments of a tool call.
ProviderFailures == {"api error", "unparseable arguments"}

\* f"Error calling OpenAI: {str(e)}" and its like for the other providers.
ErrorCalling(e) == [fmt |-> "Error calling provider: e", e |-> e]

\* A provider that returns the tool calls it had parsed when it failed.
ProviderExceptKeepsCalls(turn, e) ==
    AIMessage(ErrorCalling(e),
              IF e = "unparseable arguments"
              THEN <<[id |-> CallId(turn, 1), name |-> "click", args |-> "fit"]>>
              ELSE <<>>)

\* The `except Exception as e` of a provider's invoke: an assistant message
\* with the error text; tool_calls defaults to None, which AIMessage turns
\* into the empty list.
ProviderExcept(turn, e) == AIMessage(ErrorCalling(e), <<>>)

\* One iteration whose provider call fails: the message the provider returns
\* is appended and stored, and the loop goes on as its tool calls say.
ProviderFails ==
    /\ UNCHANGED <<browserVars, stream>>
    /\ pc = "loop"
    /\ LoopContinues(iteration, max_iterations)
    /\ \E e \in ProviderFailures :
       \E r \in {ProviderExcept(llm_calls + 1, e)} :
       \E history \in {Append(messages, r)} :
       \E stored \in {StoreResponse(r)} :
            /\ iteration' = iteration + 1
            /\ llm_calls' = llm_calls + 1
            /\ llm_seen' = Append(llm_seen, LLMInput(messages))
            /\ messages' = history
            /\ response' = r
            /\ IF r.tool_calls = <<>>
               THEN /\ IF memory
                       THEN /\ SetMem(AddExchange(stored, Text(InputText),
                                                  r.content, TRUE))
                            /\ exchanges' = Append(exchanges,
                                   [human_input |-> Text(InputText),
                                    ai_response |-> r.content, success |-> TRUE])
                       ELSE UNCHANGED <<conv_messages, task_history,
                                        interaction_count, exchanges>>
                    /\ result' = Result(r.content, history)
                    /\ outcome' = "DONE"
                    /\ pc' = "returned"
                    /\ tool_idx' = tool_idx
               ELSE /\ SetMem(stored)
                    /\ tool_idx' = 1
                    /\ pc' = "tools"
                    /\ UNCHANGED <<result, outcome, exchanges>>
    /\ UNCHANGED <<max_iterations, memory, tool_invocations, memory_reads,
                   conv_start>>

NextProviders ==
    \/ Next
    \/ ProviderFails

\* The loop driven by a provider whose calls may fail.
SpecProviders == Init /\ [][NextProviders]_vars

\* --------------------------------------------------- AgentExecutor.stream

\* The responses the backend gave to invoke, in order: stream is driven by
\* the same sequence.
Responses(history) == SelectSeq(history, LAMBDA m : m.role = "assistant")

\* What the tool did when invoke ran this call, read off the tool message
\* that answers it; a call invoke never made is free to return or raise.
ReplayedOutcomes(tool_call) ==
    IF \E q \in DOMAIN messages :
          messages[q].role = "tool" /\ messages[q].tool_call_id = tool_call.id
    THEN LET q == CHOOSE q \in DOMAIN messages :
                    /\ messages[q].role = "tool"
                    /\ messages[q].tool_call_id = tool_call.id
             content == messages[q].content
         IN  {IF content.fmt = "str"
              THEN [raised |-> FALSE, v |-> content.s]
              ELSE [raised |-> TRUE, v |-> content.e]}
    ELSE ToolInvoke(tool_call.args)

\* The history of stream seeded as invoke seeds its own, memory context
\* included.
StreamSeedWithMemory == InitialMessages

\* The seeded history of stream: the static prompt and the input.
StreamSeed ==
    <<SystemMessage([fmt |-> "system_prompt"]), HumanMessage(Text(InputText))>>

\* stream up to its loop, called with the input invoke was called with once
\* invoke has returned.
StreamStart ==
    /\ pc = "returned"
    /\ stream.pc = "idle"
    /\ stream' = [StreamIdle EXCEPT !.pc = "loop", !.messages = StreamSeed,
                                    !.mem = Mem]
    /\ UNCHANGED <<max_iterations, messages, iteration, pc, response, tool_idx,
                   result, outcome, llm_calls, llm_seen, tool_invocations,
                   memory_reads, exchanges, conv_start, memVars, browserVars>>

\* One iteration of stream: the response is appended, one event is emitted,
\* and the loop breaks when the response carries no tool call.
StreamInference ==
    /\ stream.pc = "loop"
    /\ LoopContinues(stream.iteration, max_iterations)
    /\ Len(stream.llm_seen) < Len(Responses(messages))
    /\ \E r \in {Responses(messages)[Len(stream.llm_seen) + 1]} :
        stream' = [stream EXCEPT
                      !.iteration = @ + 1,
                      !.llm_seen = Append(@, LLMInput(stream.messages)),
                      !.messages = Append(@, r),
                      !.response = r,
                      !.results = Append(@, [messages |-> <<r>>]),
                      !.tool_idx = IF r.tool_calls = <<>> THEN 0 ELSE 1,
                      !.pc = IF r.tool_calls = <<>> THEN "returned" ELSE "tools"]
    /\ UNCHANGED <<max_iterations, messages, iteration, pc, response, tool_idx,
                   result, outcome, llm_calls, llm_seen, tool_invocations,
                   memory_reads, exchanges, conv_start, memVars, browserVars>>

\* One pass of stream's for loop.
StreamToolCall ==
    /\ stream.pc = "tools"
    /\ \E tool_call \in {stream.response.tool_calls[stream.tool_idx]} :
       \E last \in {stream.tool_idx = Len(stream.response.tool_calls)} :
       \E o \in IF tool_call.name \in RegisteredTools
                THEN ReplayedOutcomes(tool_call)
                ELSE {[raised |-> FALSE, v |-> "unused"]} :
        stream' = [stream EXCEPT
                      !.messages =
                          Append(@, IF tool_call.name \in RegisteredTools
                                    THEN ToolResultMessage(tool_call, o)
                                    ELSE NotFoundMessage(tool_call)),
                      !.tool_invocations =
                          IF tool_call.name \in RegisteredTools
                          THEN Append(@, tool_call.id) ELSE @,
                      !.tool_idx = IF last THEN 0 ELSE @ + 1,
                      !.pc = IF last THEN "loop" ELSE "tools"]
    /\ UNCHANGED <<max_iterations, messages, iteration, pc, response, tool_idx,
                   result, outcome, llm_calls, llm_seen, tool_invocations,
                   memory_reads, exchanges, conv_start, memVars, browserVars>>

\* stream's while condition fails: the events are returned.
StreamExhausted ==
    /\ stream.pc = "loop"
    /\ ~LoopContinues(stream.iteration, max_iterations)
    /\ stream' = [stream EXCEPT !.pc = "returned"]
    /\ UNCHANGED <<max_iterations, messages, iteration, pc, response, tool_idx,
                   result, outcome, llm_calls, llm_seen, tool_invocations,
                   memory_reads, exchanges, conv_start, memVars, browserVars>>

NextStream ==
    \/ Next
    \/ StreamStart
    \/ StreamInference
    \/ StreamToolCall
    \/ StreamExhausted

\* invoke, then stream on the same executor with the same input and the
\* same backend behaviour.
SpecStream == Init /\ [][NextStream]_vars

\* The loop when every inference call and every tool call returns: the single
\* thread of control always takes its next step.
FairSpec == Spec /\ WF_vars(Next)

\* ------------------------------------------------------------------ browser

\* Strings the click resolution compares are sequences of characters; the
\* alphabet has two letters in both cases.
Lower(c) == CASE c = "S" -> "s" [] c = "O" -> "o" [] OTHER -> c

\* str.lower()
LowerStr(str) == [i \in 1..Len(str) |-> Lower(str[i])]

\* sub in str
Contains(sub, str) ==
    \E i \in 0..(Len(str) - Len(sub)) : SubSeq(str, i + 1, i + Len(sub)) = sub

\* str.lower() of a tag or type name.
LowerWord(w) ==
    CASE w = "BUTTON" -> "button"
      [] w = "A" -> "a"
      [] w = "INPUT" -> "input"
      [] w = "DIV" -> "div"
      [] w = "SELECT" -> "select"
      [] OTHER -> w

\* dict.get(key, default)
Get(d, key, default) == IF key \in DOMAIN d THEN d[key] ELSE default

\* elem.get('attributes', {}).get(key, default)
Attr(elem, key, default) == Get(Get(elem, "attributes", <<>>), key, default)

\* The records analyze_page builds for elements of the base document: tagName
\* as the DOM gives it, the classified type, the display text, the selector,
\* the centre point and the attributes value and placeholder.
BaseElements ==
    {[tagName |-> "BUTTON", type |-> "button", text |-> <<"O">>,
      cssSelector |-> "#submit", center |-> <<10, 10>>,
      attributes |-> [value |-> <<"S", "o">>, placeholder |-> <<>>]],
     [tagName |-> "INPUT", type |-> "input", text |-> <<"S">>,
      cssSelector |-> "[name=q]", center |-> <<30, 30>>,
      attributes |-> [value |-> <<>>, placeholder |-> <<"S">>]]}

\* The records analyze_page builds for elements of a popup region.
PopupElements ==
    {[tagName |-> "DIV", type |-> "button", text |-> <<"o">>,
      cssSelector |-> "div.close", center |-> <<40, 40>>, isPopup |-> TRUE]}

\* The record with its id set.
WithId(e, n) ==
    IF "isPopup" \in DOMAIN e
    THEN [id |-> n, tagName |-> e.tagName, type |-> e.type, text |-> e.text,
          cssSelector |-> e.cssSelector, center |-> e.center,
          isPopup |-> e.isPopup]
    ELSE [id |-> n, tagName |-> e.tagName, type |-> e.type, text |-> e.text,
          cssSelector |-> e.cssSelector, center |-> e.center,
          attributes |-> e.attributes]

\* A pass that numbers the records as they come, popup records anywhere.
SnapshotsUnordered(base, popup) ==
    UNION {{[i \in 1..n |-> WithId(f[i], i - 1)] :
                f \in [1..n -> base \cup popup]} :
           n \in 0..MaxElements}

\* The lists of records of at most MaxElements entries a pass over a page
\* with these base and popup elements can return: one record for each
\* element the pass visits, base records before popup records, each with its
\* position as id.
SnapshotsOf(base, popup) ==
    UNION {{[i \in 1..n |-> WithId(f[i], i - 1)] :
                f \in {g \in [1..n -> base \cup popup] :
                          \A i, j \in 1..n :
                              i < j => /\ g[i] # g[j]
                                       /\ g[i] \in popup => g[j] \in popup}} :
           n \in 0..MaxElements}

\* The lists of records one analyze_page pass can return.
Snapshots == SnapshotsOf(BaseElements, PopupElements)

\* What the target's id may be: absent, a number, or a string.
IdValues ==
    {None}
    \cup {[k |-> "int", v |-> n] : n \in {-1, 0, MaxElements}}
    \cup {[k |-> "str", v |-> cs] :
            cs \in {<<"1">>, <<"x">>}}

\* What the target's type may be.
TypeValues == {None} \cup {[k |-> "str", v |-> w] : w \in {"button"}}

\* What the target's text may be.
TextValues ==
    {None} \cup {[k |-> "str", v |-> cs] : cs \in {<<"S">>, <<"o">>}}

\* The target descriptions click is called with: a map with optional id, type
\* and text, or a bare string.
TargetInputs ==
    {[kind |-> "map", id |-> i, type |-> ty, text |-> tx] :
        i \in IdValues, ty \in TypeValues, tx \in TextValues}
    \cup {[kind |-> "string", s |-> cs] : cs \in {<<"1">>, <<"S">>}}

Digits == {"0", "1", "9"}

DigitValue(c) == CASE c = "0" -> 0 [] c = "1" -> 1 [] c = "9" -> 9

RECURSIVE NatOf(_)
NatOf(cs) ==
    IF cs = <<>> THEN 0
    ELSE NatOf(SubSeq(cs, 1, Len(cs) - 1)) * 10 + DigitValue(cs[Len(cs)])

IsDigits(cs) == cs # <<>> /\ \A i \in DOMAIN cs : cs[i] \in Digits

\* int(x) of a number or a string: an optional sign and digits, or ValueError.
PyInt(x) ==
    IF x.k = "int" THEN [ok |-> TRUE, v |-> x.v]
    ELSE IF IsDigits(x.v) THEN [ok |-> TRUE, v |-> NatOf(x.v)]
    ELSE IF Len(x.v) > 1 /\ x.v[1] = "-" /\ IsDigits(Tail(x.v))
         THEN [ok |-> TRUE, v |-> 0 - NatOf(Tail(x.v))]
    ELSE [ok |-> FALSE, v |-> 0]

\* _parse_click_target: (target_id, target_type, target_text, is_structured).
\* A map is taken field by field; a bare string is an id when it is a number
\* and a text otherwise.
ParseClickTarget(td) ==
    IF td.kind = "map"
    THEN [id |-> td.id, type |-> td.type, text |-> td.text, is_structured |-> TRUE]
    ELSE IF IsDigits(td.s)
         THEN [id |-> [k |-> "str", v |-> td.s], type |-> None, text |-> None,
               is_structured |-> FALSE]
         ELSE [id |-> None, type |-> None, text |-> [k |-> "str", v |-> td.s],
               is_structured |-> FALSE]

\* The truth value of an optional type, text or id.
TruthyWord(x) == x.k = "str" /\ x.v # ""
TruthyText(x) == x.k = "str" /\ x.v # <<>>
TruthyId(x) == (x.k = "int" /\ x.v # 0) \/ (x.k = "str" /\ x.v # <<>>)

\* 'btn' in className
ContainsBtn(cls) == cls \in {"btn", "btn btn-primary"}

\* elem_text: the lowered text, or '' when there is none.
ElemText(elem) == LowerStr(Get(elem, "text", <<>>))

\* Tier 2's type_match.
TypeMatch(target_type, elem) ==
    IF TruthyWord(target_type)
    THEN LET elem_type == LowerWord(Get(elem, "type", ""))
             elem_tag == LowerWord(Get(elem, "tagName", ""))
         IN  \/ target_type.v = elem_type
             \/ target_type.v = elem_tag
             \/ /\ target_type.v = "button"
                /\ \/ elem_tag = "button"
                   \/ elem_type = "button"
                   \/ ContainsBtn(Get(elem, "className", ""))
    ELSE TRUE

\* Tier 2's text_match without the lowering of either side.
TextMatchCaseSensitive(target_text, elem) ==
    IF TruthyText(target_text)
    THEN \/ Contains(target_text.v, Get(elem, "text", <<>>))
         \/ Attr(elem, "value", <<>>) = target_text.v
         \/ Attr(elem, "placeholder", <<>>) = target_text.v
         \/ Attr(elem, "aria-label", <<>>) = target_text.v
    ELSE TRUE

\* Tier 2's text_match.
TextMatch(target_text, elem) ==
    IF TruthyText(target_text)
    THEN LET t == LowerStr(target_text.v)
         IN  \/ Contains(t, ElemText(elem))
             \/ LowerStr(Attr(elem, "value", <<>>)) = t
             \/ LowerStr(Attr(elem, "placeholder", <<>>)) = t
             \/ LowerStr(Attr(elem, "aria-label", <<>>)) = t
    ELSE TRUE

\* Tier 1 with a negative index counted from the end of the list.
DirectLookupWrapping(parsed, elements) ==
    IF parsed.id # None /\ elements # <<>>
    THEN LET r == PyInt(parsed.id)
         IN  IF r.ok /\ 0 <= r.v /\ r.v < Len(elements)
             THEN elements[r.v + 1]
             ELSE IF r.ok /\ r.v < 0 /\ 0 - r.v <= Len(elements)
             THEN elements[Len(elements) + r.v + 1]
             ELSE None
    ELSE None

\* Tier 1 with the type and text of the target applied to the record.
DirectLookupFiltered(parsed, elements) ==
    IF parsed.id # None /\ elements # <<>>
    THEN LET r == PyInt(parsed.id)
         IN  IF /\ r.ok /\ 0 <= r.v /\ r.v < Len(elements)
                /\ TypeMatch(parsed.type, elements[r.v + 1])
                /\ TextMatch(parsed.text, elements[r.v + 1])
             THEN elements[r.v + 1]
             ELSE None
    ELSE None

\* Tier 1: the record at index int(target_id), when that is an index.
DirectLookup(parsed, elements) ==
    IF parsed.id # None /\ elements # <<>>
    THEN LET r == PyInt(parsed.id)
         IN  IF r.ok /\ 0 <= r.v /\ r.v < Len(elements)
             THEN elements[r.v + 1]
             ELSE None
    ELSE None

\* Tier 2 taking the last match instead of the first.
AttributeSearchLast(parsed, elements) ==
    LET matching_elements ==
            SelectSeq(elements, LAMBDA e : TypeMatch(parsed.type, e)
                                           /\ TextMatch(parsed.text, e))
    IN  IF matching_elements # <<>>
        THEN matching_elements[Len(matching_elements)]
        ELSE None

\* Tier 2 run only for a target that gives a type or a text.
AttributeSearchConstrained(parsed, elements) ==
    LET matching_elements ==
            SelectSeq(elements, LAMBDA e : TypeMatch(parsed.type, e)
                                           /\ TextMatch(parsed.text, e))
    IN  IF (TruthyWord(parsed.type) \/ TruthyText(parsed.text))
           /\ matching_elements # <<>>
        THEN matching_elements[1]
        ELSE None

\* Tier 2: the first visible-and-in-viewport match, else the first match.
AttributeSearch(parsed, elements) ==
    LET matching_elements ==
            SelectSeq(elements, LAMBDA e : TypeMatch(parsed.type, e)
                                           /\ TextMatch(parsed.text, e))
        visible_elements ==
            SelectSeq(matching_elements,
                      LAMBDA e : Get(e, "visible", FALSE)
                                 /\ Get(e, "inViewport", FALSE))
    IN  IF visible_elements # <<>> THEN visible_elements[1]
        ELSE IF matching_elements # <<>> THEN matching_elements[1]
        ELSE None

\* Tier 3's type_match.
EnhancedTypeMatch(target_type, elem) ==
    IF TruthyWord(target_type)
    THEN LET elem_type == LowerWord(Get(elem, "type", ""))
             elem_tag == LowerWord(Get(elem, "tagName", ""))
             role == Attr(elem, "role", "")
         IN  \/ target_type.v = elem_type
             \/ target_type.v = elem_tag
             \/ /\ target_type.v = "button"
                /\ \/ elem_tag = "button"
                   \/ elem_type = "button"
                   \/ elem_type = "submit"
                   \/ ContainsBtn(Get(elem, "className", ""))
                   \/ role = "button"
             \/ /\ target_type.v = "input"
                /\ \/ elem_tag = "input"
                   \/ elem_type = "input"
                   \/ elem_type \in {"text", "email", "password", "search",
                                     "tel", "url"}
             \/ /\ target_type.v = "link"
                /\ \/ elem_tag = "a"
                   \/ elem_type = "link"
                   \/ role = "link"
    ELSE TRUE

\* Tier 3's text_match.
EnhancedTextMatch(target_text, elem) ==
    IF TruthyText(target_text)
    THEN LET t == LowerStr(target_text.v)
             fields == {Attr(elem, "value", <<>>), Attr(elem, "placeholder", <<>>),
                        Attr(elem, "aria-label", <<>>), Attr(elem, "title", <<>>)}
         IN  \/ Contains(t, ElemText(elem))
             \/ \E field \in fields : LowerStr(field) = t
             \/ \E field \in fields : field # <<>> /\ Contains(t, LowerStr(field))
    ELSE TRUE

\* Tier 3's search: the first record in list order that matches.
EnhancedSearch(parsed, elements) ==
    LET matching == SelectSeq(elements,
                        LAMBDA e : EnhancedTypeMatch(parsed.type, e)
                                   /\ EnhancedTextMatch(parsed.text, e))
    IN  IF matching # <<>> THEN matching[1] ELSE None

\* The list tier 3 iterates: click's local name page_elements, bound by the
\* import at the start of the call; analyze_page rebinds the module's global
\* and leaves that local name on the list it was bound to.
RescanList(local_elements, global_elements) == local_elements

\* What a snapshot pass does: the records it found, or a backend failure,
\* which leaves the snapshot empty.
AnalysisOutcomesOf(snapshots) ==
    {[ok |-> TRUE, elements |-> els] : els \in snapshots}
    \cup {[ok |-> FALSE, elements |-> <<>>]}

AnalysisOutcomes == AnalysisOutcomesOf(Snapshots)

\* What update_cursor, the helper that moves the cursor indicator in the
\* page, does: it returns, or the backend fails and it raises.
CursorOutcomes == {"ok", "raise"}

\* What the backend does at each step of a click: the cursor update and the
\* five strategies. A step after the one that ends the call is never run;
\* its outcome is fixed to keep one value per run.
BackendOutcomes ==
    {o \in [cursor : CursorOutcomes, s1 : {"ok", "raise"}, s2 : {"ok", "raise"},
            s3 : {"ok", "raise"}, s4 : {"true", "false", "raise"},
            s5 : {"true", "false", "raise"}] :
        /\ o.cursor = "raise" => o.s1 = "ok"
        /\ o.s1 = "ok" => o.s2 = "ok"
        /\ o.s2 = "ok" => o.s3 = "ok"
        /\ o.s3 = "ok" => o.s4 = "true"
        /\ o.s4 = "true" => o.s5 = "true"}

\* A cascade that runs every strategy, whatever the earlier ones reported.
CascadeKeepsGoing(element, o) ==
    LET selector == Get(element, "cssSelector", "") # ""
        Report(x) == IF x \in {"ok", "true"} THEN "success" ELSE "failure"
    IN  [attempts |->
            <<"coordinate">>
            \o (IF selector THEN <<"selector", "script">> ELSE <<>>)
            \o <<"text search">>
            \o (IF selector THEN <<"event">> ELSE <<>>),
         reports |->
            <<Report(o.s1)>>
            \o (IF selector THEN <<Report(o.s2), Report(o.s3)>> ELSE <<>>)
            \o <<Report(o.s4)>>
            \o (IF selector THEN <<Report(o.s5)>> ELSE <<>>),
         errors |->
            (IF o.s1 # "ok" THEN <<"Coordinate click failed: e">> ELSE <<>>)
            \o (IF selector /\ o.s2 # "ok"
                THEN <<"CSS selector click failed: e">> ELSE <<>>)
            \o (IF selector /\ o.s3 # "ok"
                THEN <<"JavaScript click failed: e">> ELSE <<>>)
            \o (IF o.s4 = "false"
                THEN <<"JavaScript text search click failed: element not found">>
                ELSE <<>>)
            \o (IF o.s4 = "raise"
                THEN <<"JavaScript text search click failed: e">> ELSE <<>>)
            \o (IF selector /\ o.s5 = "raise"
                THEN <<"Event dispatch click failed: e">> ELSE <<>>),
         click_success |->
            \/ o.s1 = "ok"
            \/ selector /\ o.s2 = "ok"
            \/ selector /\ o.s3 = "ok"
            \/ o.s4 = "true"
            \/ selector /\ o.s5 # "raise"]

\* The strategy cascade on a resolved record: what was attempted, what each
\* attempt reported (a call that returns or a script that returns true is a
\* success; a raise or a script that returns false is a failure), the error
\* list, and whether the click counts as done.
Cascade(element, o) ==
    LET selector == Get(element, "cssSelector", "") # ""
        ok1 == o.s1 = "ok"
        try2 == ~ok1 /\ selector
        ok2 == ok1 \/ (try2 /\ o.s2 = "ok")
        try3 == ~ok2 /\ selector
        ok3 == ok2 \/ (try3 /\ o.s3 = "ok")
        try4 == ~ok3
        ok4 == ok3 \/ (try4 /\ o.s4 = "true")
        try5 == ~ok4 /\ selector
        ok5 == ok4 \/ (try5 /\ o.s5 # "raise")
    IN  [attempts |->
            <<"coordinate">>
            \o (IF try2 THEN <<"selector">> ELSE <<>>)
            \o (IF try3 THEN <<"script">> ELSE <<>>)
            \o (IF try4 THEN <<"text search">> ELSE <<>>)
            \o (IF try5 THEN <<"event">> ELSE <<>>),
         errors |->
            (IF ~ok1 THEN <<"Coordinate click failed: e">> ELSE <<>>)
            \o (IF try2 /\ ~ok2 THEN <<"CSS selector click failed: e">> ELSE <<>>)
            \o (IF try3 /\ ~ok3 THEN <<"JavaScript click failed: e">> ELSE <<>>)
            \o (IF try4 /\ o.s4 = "false"
                THEN <<"JavaScript text search click failed: element not found">>
                ELSE <<>>)
            \o (IF try4 /\ o.s4 = "raise"
                THEN <<"JavaScript text search click failed: e">> ELSE <<>>)
            \o (IF try5 /\ ~ok5 THEN <<"Event dispatch click failed: e">> ELSE <<>>),
         reports |->
            <<IF ok1 THEN "success" ELSE "failure">>
            \o (IF try2 THEN <<IF o.s2 = "ok" THEN "success" ELSE "failure">> ELSE <<>>)
            \o (IF try3 THEN <<IF o.s3 = "ok" THEN "success" ELSE "failure">> ELSE <<>>)
            \o (IF try4 THEN <<IF o.s4 = "true" THEN "success" ELSE "failure">> ELSE <<>>)
            \o (IF try5 THEN <<IF o.s5 = "true" THEN "success" ELSE "failure">> ELSE <<>>),
         click_success |-> ok5]

\* The not-found string: the criteria with a true value for a structured
\* target, the description itself otherwise.
NotFoundText(td, parsed) ==
    IF parsed.is_structured
    THEN [fmt |-> "No elements matching criteria found, even after scrolling.",
          criteria |->
             (IF TruthyId(parsed.id) THEN <<[key |-> "id", v |-> parsed.id]>> ELSE <<>>)
             \o (IF TruthyWord(parsed.type)
                 THEN <<[key |-> "type", v |-> parsed.type]>> ELSE <<>>)
             \o (IF TruthyText(parsed.text)
                 THEN <<[key |-> "text", v |-> parsed.text]>> ELSE <<>>)]
    ELSE [fmt |-> "No elements matching 'target' found, even after scrolling.",
          target |-> td]

\* A pass that keeps the cached snapshot when the evaluation fails.
AnalyzePageKeepsOnFailure(outcomes) ==
    /\ \E a \in outcomes :
        /\ page_elements' = IF a.ok THEN a.elements ELSE page_elements
        /\ tool_result' = IF a.ok
                          THEN [fmt |-> "page content", elements |-> a.elements]
                          ELSE [fmt |-> "Error analyzing page: e"]
    /\ click_log' = None
    /\ input_log' = None
    /\ UNCHANGED <<cursor, focus, loopVars, memVars>>

\* The tool analyze_page on a page whose passes have these outcomes: the
\* snapshot is replaced by what this pass found.
AnalyzePageOf(outcomes) ==
    /\ \E a \in outcomes :
        /\ page_elements' = a.elements
        /\ tool_result' = IF a.ok
                          THEN [fmt |-> "page content", elements |-> a.elements]
                          ELSE [fmt |-> "Error analyzing page: e"]
    /\ click_log' = None
    /\ input_log' = None
    /\ UNCHANGED <<cursor, focus, loopVars, memVars>>

AnalyzePage == AnalyzePageOf(AnalysisOutcomes)

\* A tool whose outer `except Exception` is missing: the exception leaves
\* the call.
OuterExceptMissing(message) == [raised |-> message]

\* The outer `except Exception as e` of a tool: the call returns the message.
OuterExcept(message) == [fmt |-> message]

\* What click would return if it counted the click as done only when a
\* strategy reported a success.
ClickResultByReports(td, parsed, element, cursor_ok, c) ==
    IF element = None THEN NotFoundText(td, parsed)
    ELSE IF ~cursor_ok THEN OuterExcept("Error clicking on element: e")
    ELSE IF \E i \in DOMAIN c.reports : c.reports[i] = "success"
    THEN [fmt |-> "Clicked on element: type with text 'text'",
          type |-> element.type, text |-> element.text]
    ELSE [fmt |-> "Failed to click element after trying multiple methods. Errors: errors",
          errors |-> c.errors]

\* What click returns: c is what the cascade did.
ClickResult(td, parsed, element, cursor_ok, c) ==
    IF element = None THEN NotFoundText(td, parsed)
    ELSE IF ~cursor_ok THEN OuterExcept("Error clicking on element: e")
    ELSE IF c.click_success
    THEN [fmt |-> "Clicked on element: type with text 'text'",
          type |-> element.type, text |-> element.text]
    ELSE [fmt |-> "Failed to click element after trying multiple methods. Errors: errors",
          errors |-> c.errors]

\* The page's active element after a click: the element a strategy clicked,
\* the one it was when no strategy reported a success.
FocusAfterClick(element, c) ==
    IF \E i \in DOMAIN c.reports : c.reports[i] = "success"
    THEN element.tagName
    ELSE focus

\* A backend whose every step succeeds.
Smooth ==
    [cursor |-> "ok", s1 |-> "ok", s2 |-> "ok", s3 |-> "ok", s4 |-> "true",
     s5 |-> "true"]

\* The targets run against every backend behaviour: one field given.
CascadeTargets ==
    {td \in TargetInputs :
        /\ td.kind = "map"
        /\ td.id \in {None, [k |-> "int", v |-> 0]}
        /\ td.type = None
        /\ Cardinality({f \in {"id", "type", "text"} : td[f] # None}) = 1}

\* The backend behaviours a call on the target is run against.
BackendFor(td) == IF td \in CascadeTargets THEN BackendOutcomes ELSE {Smooth}

\* The guard of tier 3 without its test of the snapshot.
NeedsRescanAlways(found, elements) == found = None

\* The guard of tier 3, `if not element and page_elements`: nothing was found
\* and the snapshot is not empty.
NeedsRescan(found, elements) == found = None /\ elements # <<>>

\* The tool click: the three resolution tiers, then the cursor update and
\* the strategy cascade on the resolved record, for calls with these targets
\* on a page whose passes have these outcomes. The snapshot pass draws an
\* outcome only when tier 3 is entered, the backend only when a record is
\* resolved. Each local the body computes is bound once, as the code's
\* locals are.
ClickOn(targets, outcomes) ==
    /\ \E td \in targets :
       \E parsed \in {ParseClickTarget(td)} :
       \E elements \in {page_elements} :
       \E tier1 \in {DirectLookup(parsed, elements)} :
       \E tier2 \in {IF tier1 = None /\ elements # <<>>
                     THEN AttributeSearch(parsed, elements)
                     ELSE tier1} :
       \E rescan \in {NeedsRescan(tier2, elements)} :
       \E a \in IF rescan THEN outcomes
                         ELSE {[ok |-> FALSE, elements |-> <<>>]} :
       \E element \in {IF rescan
                       THEN EnhancedSearch(parsed, RescanList(elements, a.elements))
                       ELSE tier2} :
       \E o \in IF element # None THEN BackendFor(td) ELSE {Smooth} :
       \E cursor_ok \in {element # None /\ o.cursor = "ok"} :
       \E c \in {IF cursor_ok
                 THEN Cascade(element, o)
                 ELSE [attempts |-> <<>>, reports |-> <<>>, errors |-> <<>>,
                       click_success |-> FALSE]} :
            /\ page_elements' = IF rescan THEN a.elements ELSE page_elements
            /\ cursor' = IF element # None THEN element.center ELSE cursor
            /\ click_log' =
                [target |-> td,
                 parsed |-> parsed,
                 searched |-> elements,
                 element |-> element,
                 tier |-> IF tier1 # None THEN 1
                          ELSE IF tier2 # None THEN 2
                          ELSE IF element # None THEN 3
                          ELSE 0,
                 scrolls |-> IF rescan THEN 1 ELSE 0,
                 analyses |-> IF rescan THEN 1 ELSE 0,
                 cursor_updates |-> IF element # None THEN 1 ELSE 0,
                 attempts |-> c.attempts,
                 reports |-> c.reports,
                 errors |-> c.errors]
            /\ tool_result' = ClickResult(td, parsed, element, cursor_ok, c)
            /\ focus' = FocusAfterClick(element, c)
    /\ input_log' = None
    /\ UNCHANGED <<loopVars, memVars>>

Click == ClickOn(TargetInputs, AnalysisOutcomes)

\* The loop at rest while the browser tools are called directly.
LoopAtRest ==
    /\ max_iterations = 0
    /\ memory = FALSE
    /\ conv_messages = <<>>
    /\ task_history = <<>>
    /\ interaction_count = 0
    /\ messages = <<>>
    /\ iteration = 0
    /\ pc = "idle"
    /\ response = None
    /\ tool_idx = 0
    /\ result = None
    /\ outcome = "none"
    /\ llm_calls = 0
    /\ llm_seen = <<>>
    /\ tool_invocations = <<>>
    /\ memory_reads = 0
    /\ exchanges = <<>>
    /\ conv_start = <<>>
    /\ stream = StreamIdle

InitBrowser == LoopAtRest /\ BrowserInit

BrowserNext ==
    \/ AnalyzePage
    \/ Click

\* The browser tools called in any order.
SpecBrowser == InitBrowser /\ [][BrowserNext]_vars

\* A page with a button 'Submit' (S), a link 'Submit order' (S o) and a
\* button 'O' whose value is 'So'.
SubmitButton ==
    [tagName |-> "BUTTON", type |-> "button", text |-> <<"S">>,
     cssSelector |-> "#go", center |-> <<50, 50>>,
     attributes |-> [value |-> <<>>, placeholder |-> <<>>]]

SubmitOrderLink ==
    [tagName |-> "A", type |-> "link", text |-> <<"S", "o">>,
     cssSelector |-> "a.order", center |-> <<60, 60>>,
     attributes |-> [value |-> <<>>, placeholder |-> <<>>]]

SubmitPageElements ==
    {SubmitButton, SubmitOrderLink} \cup {e \in BaseElements : e.tagName = "BUTTON"}

\* What a pass over that page can return.
SubmitPageOutcomes == AnalysisOutcomesOf(SnapshotsOf(SubmitPageElements, {}))

\* The targets used on that page: a type, a text, or both.
SubmitPageTargets ==
    {[kind |-> "map", id |-> None, type |-> ty, text |-> tx] :
        ty \in {None} \cup {[k |-> "str", v |-> w] : w \in {"button", "link"}},
        tx \in {None} \cup {[k |-> "str", v |-> cs] : cs \in {<<"S">>, <<"s", "o">>}}}

AnalyzeSubmitPage == AnalyzePageOf(SubmitPageOutcomes)

ClickSubmitPage == ClickOn(SubmitPageTargets, SubmitPageOutcomes)

SubmitPageNext ==
    \/ AnalyzeSubmitPage
    \/ ClickSubmitPage

\* The browser tools called in any order on that page.
SpecSubmitPage == InitBrowser /\ [][SubmitPageNext]_vars

\* ------------------------------------------------------------- type

\* `if not value` of an absent value, a string or a number.
ValueGivenNotNone(x) == x.k # "None"

ValueGiven(x) ==
    CASE x.k = "None" -> FALSE
      [] x.k = "str" -> x.v # <<>>
      [] x.k = "int" -> x.v # 0

\* The values type is called with: none, the empty string, a text.
TypedValues == {None, [k |-> "str", v |-> <<>>], [k |-> "str", v |-> <<"S">>]}

\* The clear script's test of document.activeElement (no page of the model
\* has a contentEditable element).
InputCapable(tag) == tag \in {"INPUT", "TEXTAREA"}

\* What the backend does at the two steps of type: the evaluation of the
\* clear script and the keystrokes.
TypeBackend == [clear : {"run", "raise"}, keys : {"ok", "raise"}]

SmoothType == [clear |-> "run", keys |-> "ok"]

\* A type that emits the keystrokes only after a clear that returned true.
TypeCallNeedsClear(value, active, b) ==
    IF ~ValueGiven(value)
    THEN [steps |-> <<>>, reports |-> <<>>, keystrokes |-> <<>>,
          result |-> [fmt |-> "Error: 'value' parameter is required."]]
    ELSE LET clear == IF b.clear = "raise" THEN "raise"
                      ELSE IF InputCapable(active) THEN "true" ELSE "false"
         IN  IF clear = "true"
             THEN [steps |-> <<"clear", "keys">>,
                   reports |-> <<clear, b.keys>>,
                   keystrokes |-> <<value>>,
                   result |->
                      IF b.keys = "ok"
                      THEN [fmt |-> "Cleared field and typed 'value' into currently focused element",
                            value |-> value]
                      ELSE OuterExcept("Error typing: e")]
             ELSE [steps |-> <<"clear">>, reports |-> <<clear>>,
                   keystrokes |-> <<>>,
                   result |-> OuterExcept("Error typing: e")]

\* The body of type: the browser steps it takes in order, what each
\* reported, the values handed to page.keyboard.type, and the string
\* returned. active is the tag of the page's active element.
TypeCall(value, active, b) ==
    IF ~ValueGiven(value)
    THEN [steps |-> <<>>, reports |-> <<>>, keystrokes |-> <<>>,
          result |-> [fmt |-> "Error: 'value' parameter is required."]]
    ELSE LET clear == IF b.clear = "raise" THEN "raise"
                      ELSE IF InputCapable(active) THEN "true" ELSE "false"
         IN  [steps |-> <<"clear", "keys">>,
              reports |-> <<clear, b.keys>>,
              keystrokes |-> <<value>>,
              result |->
                 IF b.keys = "ok"
                 THEN [fmt |-> "Cleared field and typed 'value' into currently focused element",
                       value |-> value]
                 ELSE OuterExcept("Error typing: e")]

\* The tool type.
Type ==
    /\ \E value \in TypedValues :
       \E b \in IF ValueGiven(value) THEN TypeBackend ELSE {SmoothType} :
       \E t \in {TypeCall(value, focus, b)} :
            /\ input_log' = [op |-> "type", value |-> value, active |-> focus,
                             steps |-> t.steps, reports |-> t.reports,
                             keystrokes |-> t.keystrokes]
            /\ tool_result' = t.result
    /\ click_log' = None
    /\ UNCHANGED <<page_elements, cursor, focus, loopVars, memVars>>

\* ------------------------------------------------------- select_option

\* The records of a page with a native select 'S', a div with role combobox
\* 'o' (getElementType gives it the type dropdown) and a div with a click
\* handler 'So' that opens a menu (type button).
NativeSelect ==
    [tagName |-> "SELECT", type |-> "dropdown", text |-> <<"S">>,
     cssSelector |-> "#country", center |-> <<70, 70>>,
     attributes |-> [value |-> <<>>, placeholder |-> <<>>]]

ComboBox ==
    [tagName |-> "DIV", type |-> "dropdown", text |-> <<"o">>,
     cssSelector |-> "div.combo", center |-> <<80, 80>>,
     attributes |-> [value |-> <<>>, placeholder |-> <<>>]]

MenuButton ==
    [tagName |-> "DIV", type |-> "button", text |-> <<"S", "o">>,
     cssSelector |-> "div.menu", center |-> <<90, 90>>,
     attributes |-> [value |-> <<>>, placeholder |-> <<>>]]

\* The page in document order: the search input of the base page, then the
\* three dropdowns.
DropdownDocument ==
    <<CHOOSE e \in BaseElements : e.tagName = "INPUT",
      NativeSelect, ComboBox, MenuButton>>

DropdownElements == {DropdownDocument[i] : i \in DOMAIN DropdownDocument}

\* The place of a record's element in the document.
DocumentPosition(e) ==
    CHOOSE i \in DOMAIN DropdownDocument :
        DropdownDocument[i].cssSelector = e.cssSelector

\* The lists a pass over that page can return: querySelectorAll gives the
\* elements in document order, each once, and the pass keeps those in the
\* viewport.
DropdownSnapshots ==
    {els \in SnapshotsOf(DropdownElements, {}) :
        \A i, j \in DOMAIN els :
            i < j => DocumentPosition(els[i]) < DocumentPosition(els[j])}

DropdownOutcomes == AnalysisOutcomesOf(DropdownSnapshots)

\* What select_option is called with: a string that is no JSON, JSON that is
\* no object, or an object with the fields id, type, text and value.
SelectInputs ==
    {[kind |-> "invalid"], [kind |-> "list"]}
    \cup {inp \in [kind : {"map"},
                   id : {None, [k |-> "int", v |-> 0], [k |-> "int", v |-> 1],
                         [k |-> "str", v |-> <<"0">>]},
                   type : {None, [k |-> "str", v |-> "dropdown"]},
                   text : {None, [k |-> "str", v |-> <<"S">>]},
                   value : {None, [k |-> "str", v |-> <<>>],
                            [k |-> "str", v |-> <<"S">>],
                            [k |-> "str", v |-> <<"1">>]}] :
            \* without a value the call ends before another field is read
            ~ValueGiven(inp.value)
                => (inp.type = None /\ inp.id \in {None, [k |-> "int", v |-> 1]})}

\* The start of select_option: the input is read, the value is required and
\* the target description is built from the fields that are true.
SelectTarget(json_input) ==
    IF json_input.kind = "invalid"
    THEN [ok |-> FALSE,
          result |-> [fmt |-> "Error: Invalid JSON input format. Please provide a valid JSON string."]]
    ELSE IF json_input.kind = "list"
    THEN [ok |-> FALSE,
          result |-> OuterExcept("Error selecting option from dropdown: e")]
    ELSE IF ~ValueGiven(json_input.value)
    THEN [ok |-> FALSE,
          result |-> [fmt |-> "Error: 'value' field is required in the input JSON."]]
    ELSE IF TruthyId(json_input.id)
    THEN [ok |-> TRUE,
          td |-> [kind |-> "map", id |-> json_input.id, type |-> json_input.type,
                  text |-> json_input.text]]
    ELSE IF TruthyWord(json_input.type) /\ TruthyText(json_input.text)
    THEN [ok |-> TRUE,
          td |-> [kind |-> "map", id |-> None, type |-> json_input.type,
                  text |-> json_input.text]]
    ELSE IF TruthyText(json_input.text)
    THEN [ok |-> TRUE, td |-> [kind |-> "string", s |-> json_input.text.v]]
    ELSE [ok |-> FALSE,
          result |-> [fmt |-> "Error: At least one of 'id', 'type', or 'text' must be provided to identify the element."]]

\* select_option's type_match.
SelectTypeMatch(parsed_type, elem) ==
    IF TruthyWord(parsed_type)
    THEN LET elem_type == LowerWord(Get(elem, "type", ""))
             elem_tag == LowerWord(Get(elem, "tagName", ""))
         IN  \/ parsed_type.v = elem_type
             \/ parsed_type.v = elem_tag
             \/ /\ parsed_type.v = "dropdown"
                /\ \/ elem_tag = "select"
                   \/ elem_type = "dropdown"
                   \/ Attr(elem, "role", "") = "listbox"
    ELSE TRUE

\* select_option's search of the snapshot: the first visible-and-in-viewport
\* match, else the first match.
SelectAttributeSearch(parsed, elements) ==
    LET matching_elements ==
            SelectSeq(elements, LAMBDA e : SelectTypeMatch(parsed.type, e)
                                           /\ TextMatch(parsed.text, e))
        visible_elements ==
            SelectSeq(matching_elements,
                      LAMBDA e : Get(e, "visible", FALSE)
                                 /\ Get(e, "inViewport", FALSE))
    IN  IF visible_elements # <<>> THEN visible_elements[1]
        ELSE IF matching_elements # <<>> THEN matching_elements[1]
        ELSE None

\* select_option's search after the scroll: the first match in list order.
SelectSearchAgain(parsed, elements) ==
    LET matching == SelectSeq(elements,
                        LAMBDA e : SelectTypeMatch(parsed.type, e)
                                   /\ TextMatch(parsed.text, e))
    IN  IF matching # <<>> THEN matching[1] ELSE None

\* The test that sends a resolved record to page.select_option.
NativeBranch(element) ==
    element.type = "dropdown" \/ LowerWord(element.tagName) = "select"

\* What page.select_option does at the three attempts. On an element that is
\* no <select> the backend raises each time.
NativeOutcomes(element) ==
    IF element.tagName = "SELECT"
    THEN {[label |-> "ok", value |-> "ok", index |-> "ok"],
          [label |-> "raise", value |-> "ok", index |-> "ok"],
          [label |-> "raise", value |-> "raise", index |-> "ok"],
          [label |-> "raise", value |-> "raise", index |-> "raise"]}
    ELSE {[label |-> "raise", value |-> "raise", index |-> "raise"]}

\* The option nodes the document shows after the click that opens a custom
\* dropdown, in document order.
OptionLists ==
    {<<>>,
     <<[text |-> <<"O">>, center |-> <<3, 3>>]>>,
     <<[text |-> <<"S", "o">>, center |-> <<1, 1>>]>>,
     <<[text |-> <<"S", "o">>, center |-> <<1, 1>>],
       [text |-> <<"S">>, center |-> <<2, 2>>]>>}

\* What the backend does at the steps of the custom branch.
CustomOutcomes ==
    {[cursor1 |-> "raise", click1 |-> "ok", options |-> <<>>, search |-> "run",
      cursor2 |-> "ok", click2 |-> "ok"],
     [cursor1 |-> "ok", click1 |-> "raise", options |-> <<>>, search |-> "run",
      cursor2 |-> "ok", click2 |-> "ok"],
     [cursor1 |-> "ok", click1 |-> "ok", options |-> <<>>, search |-> "raise",
      cursor2 |-> "ok", click2 |-> "ok"]}
    \cup {[cursor1 |-> "ok", click1 |-> "ok", options |-> os, search |-> "run",
           cursor2 |-> c2, click2 |-> k2] :
            os \in OptionLists,
            c2 \in {"ok", "raise"}, k2 \in {"ok", "raise"}}

\* The option the search script returns: the first whose text equals the
\* value, else the first whose text contains it, else null.
FindOption(options, optionText) ==
    LET exact == SelectSeq(options, LAMBDA el : el.text = optionText)
        relaxed == SelectSeq(options, LAMBDA el : Contains(optionText, el.text))
    IN  IF exact # <<>> THEN exact[1]
        ELSE IF relaxed # <<>> THEN relaxed[1]
        ELSE None

\* A native branch that tries the index whatever the value is.
NativeSelectAlwaysIndex(element, option_value, at, o) ==
    IF o.label = "ok"
    THEN [steps |-> <<"label">>, reports |-> <<"ok">>, cursor |-> at,
          opened |-> FALSE,
          result |-> [fmt |-> "Selected option 'value' from dropdown: text by visible text",
                      value |-> option_value, text |-> element.text]]
    ELSE IF o.value = "ok"
    THEN [steps |-> <<"label", "value">>, reports |-> <<"raise", "ok">>,
          cursor |-> at, opened |-> FALSE,
          result |-> [fmt |-> "Selected option with value 'value' from dropdown: text",
                      value |-> option_value, text |-> element.text]]
    ELSE [steps |-> <<"label", "value", "index">>,
          reports |-> <<"raise", "raise", o.index>>,
          cursor |-> at, opened |-> FALSE,
          result |->
             IF o.index = "ok"
             THEN [fmt |-> "Selected option at index value from dropdown: text",
                   value |-> option_value, text |-> element.text]
             ELSE [fmt |-> "Failed to select option 'value' from dropdown: e",
                   value |-> option_value]]

\* The native branch: page.select_option by label, then by value, then by
\* index when the value is a string of digits; the cursor stays where it is.
NativeSelectCall(element, option_value, at, o) ==
    IF o.label = "ok"
    THEN [steps |-> <<"label">>, reports |-> <<"ok">>, cursor |-> at,
          opened |-> FALSE,
          result |-> [fmt |-> "Selected option 'value' from dropdown: text by visible text",
                      value |-> option_value, text |-> element.text]]
    ELSE IF o.value = "ok"
    THEN [steps |-> <<"label", "value">>, reports |-> <<"raise", "ok">>,
          cursor |-> at, opened |-> FALSE,
          result |-> [fmt |-> "Selected option with value 'value' from dropdown: text",
                      value |-> option_value, text |-> element.text]]
    ELSE IF ~IsDigits(option_value.v)
    THEN [steps |-> <<"label", "value">>, reports |-> <<"raise", "raise">>,
          cursor |-> at, opened |-> FALSE,
          result |-> [fmt |-> "Failed to select option 'value' from dropdown: e",
                      value |-> option_value]]
    ELSE [steps |-> <<"label", "value", "index">>,
          reports |-> <<"raise", "raise", o.index>>,
          cursor |-> at, opened |-> FALSE,
          result |->
             IF o.index = "ok"
             THEN [fmt |-> "Selected option at index value from dropdown: text",
                   value |-> option_value, text |-> element.text]
             ELSE [fmt |-> "Failed to select option 'value' from dropdown: e",
                   value |-> option_value]]

\* The custom branch: the cursor moves to the element and the element is
\* clicked, the document is searched for the option, the cursor moves to the
\* option and the option is clicked. A step that raises ends the call in the
\* outer except.
CustomSelectCall(element, option_value, at, o) ==
    LET failed == OuterExcept("Error selecting option from dropdown: e")
        found == FindOption(o.options, option_value.v)
    IN  IF o.cursor1 = "raise"
        THEN [steps |-> <<"cursor">>, reports |-> <<"raise">>,
              cursor |-> element.center, opened |-> FALSE, result |-> failed]
        ELSE IF o.click1 = "raise"
        THEN [steps |-> <<"cursor", "click">>, reports |-> <<"ok", "raise">>,
              cursor |-> element.center, opened |-> FALSE, result |-> failed]
        ELSE IF o.search = "raise"
        THEN [steps |-> <<"cursor", "click", "search">>,
              reports |-> <<"ok", "ok", "raise">>,
              cursor |-> element.center, opened |-> TRUE, result |-> failed]
        ELSE IF found = None
        THEN [steps |-> <<"cursor", "click", "search">>,
              reports |-> <<"ok", "ok", "null">>,
              cursor |-> element.center, opened |-> TRUE,
              result |-> [fmt |-> "Could not find option 'value' in the opened dropdown: text",
                          value |-> option_value, text |-> element.text]]
        ELSE IF o.cursor2 = "raise"
        THEN [steps |-> <<"cursor", "click", "search", "cursor">>,
              reports |-> <<"ok", "ok", found, "raise">>,
              cursor |-> found.center, opened |-> TRUE, result |-> failed]
        ELSE [steps |-> <<"cursor", "click", "search", "cursor", "click">>,
              reports |-> <<"ok", "ok", found, "ok", o.click2>>,
              cursor |-> found.center, opened |-> TRUE,
              result |->
                 IF o.click2 = "ok"
                 THEN [fmt |-> "Clicked on option 'option' in dropdown: text",
                       option |-> found.text, text |-> element.text]
                 ELSE failed]

\* What select_option returns when no record is resolved.
SelectNotFound(td, parsed) ==
    IF parsed.is_structured
    THEN [fmt |-> "No dropdown matching criteria found, even after scrolling.",
          criteria |->
             (IF TruthyId(parsed.id) THEN <<[key |-> "id", v |-> parsed.id]>> ELSE <<>>)
             \o (IF TruthyWord(parsed.type)
                 THEN <<[key |-> "type", v |-> parsed.type]>> ELSE <<>>)
             \o (IF TruthyText(parsed.text)
                 THEN <<[key |-> "text", v |-> parsed.text]>> ELSE <<>>)]
    ELSE [fmt |-> "No dropdown matching 'target' found, even after scrolling.",
          target |-> td]

\* The runs of the part of select_option that follows the resolution, one
\* for each behaviour of the backend.
SelectRuns(td, parsed, element, option_value, at) ==
    IF element = None
    THEN {[steps |-> <<>>, reports |-> <<>>, cursor |-> at, opened |-> FALSE,
           result |-> SelectNotFound(td, parsed)]}
    ELSE IF NativeBranch(element)
    THEN {NativeSelectCall(element, option_value, at, o) :
            o \in NativeOutcomes(element)}
    ELSE {CustomSelectCall(element, option_value, at, o) : o \in CustomOutcomes}

\* What a call that ends before the resolution does: nothing.
NoSelectRun(at, message) ==
    [steps |-> <<>>, reports |-> <<>>, cursor |-> at, opened |-> FALSE,
     result |-> message]

\* The tool select_option on a page whose passes have these outcomes.
SelectOptionOn(inputs, outcomes) ==
    /\ \E json_input \in inputs :
       \E pre \in {SelectTarget(json_input)} :
       \E parsed \in {IF pre.ok THEN ParseClickTarget(pre.td) ELSE None} :
       \E elements \in {page_elements} :
       \E tier1 \in {IF pre.ok THEN DirectLookup(parsed, elements) ELSE None} :
       \E tier2 \in {IF pre.ok /\ tier1 = None /\ elements # <<>>
                     THEN SelectAttributeSearch(parsed, elements)
                     ELSE tier1} :
       \E rescan \in {pre.ok /\ NeedsRescan(tier2, elements)} :
       \E a \in IF rescan THEN outcomes ELSE {[ok |-> FALSE, elements |-> <<>>]} :
       \E element \in {IF rescan
                       THEN SelectSearchAgain(parsed, RescanList(elements, a.elements))
                       ELSE tier2} :
       \E run \in IF pre.ok
                  THEN SelectRuns(pre.td, parsed, element, json_input.value, cursor)
                  ELSE {NoSelectRun(cursor, pre.result)} :
            /\ page_elements' = IF rescan THEN a.elements ELSE page_elements
            /\ cursor' = run.cursor
            /\ focus' = IF run.opened THEN element.tagName ELSE focus
            /\ input_log' =
                [op |-> "select_option",
                 input |-> json_input,
                 parsed |-> parsed,
                 searched |-> elements,
                 element |-> element,
                 tier |-> IF tier1 # None THEN 1
                          ELSE IF tier2 # None THEN 2
                          ELSE IF element # None THEN 3
                          ELSE 0,
                 scrolls |-> IF rescan THEN 1 ELSE 0,
                 analyses |-> IF rescan THEN 1 ELSE 0,
                 steps |-> run.steps,
                 reports |-> run.reports]
            /\ tool_result' = run.result
    /\ click_log' = None
    /\ UNCHANGED <<loopVars, memVars>>

AnalyzeDropdownPage == AnalyzePageOf(DropdownOutcomes)

SelectOption == SelectOptionOn(SelectInputs, DropdownOutcomes)

ClickDropdownPage == ClickOn(CascadeTargets, DropdownOutcomes)

InputNext ==
    \/ AnalyzeDropdownPage
    \/ ClickDropdownPage
    \/ Type
    \/ SelectOption

\* analyze_page, click, type and select_option called in any order on the
\* page with the dropdowns.
SpecInput == InitBrowser /\ [][InputNext]_vars

\* ------------------------------------------- navigate, go_back and scroll

\* What navigate is called with: a url, or a value that is no string.
Urls == {[k |-> "str", v |-> "example.com"], [k |-> "int", v |-> 1]}

\* What page.goto does: the page is reached, the browser stays on
\* about:blank, or the call raises (a failed or timed-out navigation).
GotoOutcomes == {"reached", "blank", "raise"}

\* What a call returns when its body ends without a return statement.
ReturnsNone == [returned |-> "None"]

\* The body of navigate. The except of the direct attempt prints and falls
\* out of the function.
NavigateCall(url, o) ==
    IF url.k # "str" THEN OuterExcept("Error navigating to url: e")
    ELSE IF o = "reached"
    THEN [fmt |-> "Navigated to url - Current page: current_url", url |-> url]
    ELSE ReturnsNone

\* The tool navigate. A page that is reached has the body as active element;
\* the cached snapshot is left as it is.
Navigate ==
    /\ \E url \in Urls :
       \E o \in IF url.k = "str" THEN GotoOutcomes ELSE {"raise"} :
            /\ tool_result' = NavigateCall(url, o)
            /\ focus' = IF url.k = "str" /\ o = "reached" THEN "BODY" ELSE focus
    /\ click_log' = None
    /\ input_log' = None
    /\ UNCHANGED <<page_elements, cursor, loopVars, memVars>>

\* What the backend does during go_back: there is no history, the url
\* changes, the url stays, or a call raises.
GoBackOutcomes == {"no history", "changed", "unchanged", "raise"}

\* The body of go_back.
GoBackCall(o) ==
    CASE o = "no history" -> [fmt |-> "Cannot go back - no previous page in history"]
      [] o = "changed" -> [fmt |-> "Navigated back to previous page: new_url"]
      [] o = "unchanged" -> [fmt |-> "Back navigation attempted but URL remains unchanged"]
      [] o = "raise" -> OuterExcept("Error navigating back: e")

\* The tool go_back.
GoBack ==
    /\ \E o \in GoBackOutcomes :
            /\ tool_result' = GoBackCall(o)
            /\ focus' = IF o = "changed" THEN "BODY" ELSE focus
    /\ click_log' = None
    /\ input_log' = None
    /\ UNCHANGED <<page_elements, cursor, loopVars, memVars>>

\* The directions scroll is called with; the last is not a direction.
Directions == {"down", "up", "top", "bottom", "sideways"}

\* maxY as the position script reports it: a page that fills the window, a
\* page no longer than the tolerance, and a long page.
PageMaxima == {0, ScrollTolerance, MaxScrollY}

\* window.innerHeight: shorter than what is left of a long page, and not.
ViewportHeights == {ScrollTolerance + 1, MaxScrollY}

\* scroll_info: what the position script returns for a page at offset
\* currentY.
ScrollInfos ==
    {i \in [currentY : 0..MaxScrollY, maxY : PageMaxima,
            viewportHeight : ViewportHeights] : i.currentY <= i.maxY}

\* Python's min of two numbers.
Min(a, b) == IF a <= b THEN a ELSE b

\* current_y >= max_y - 10
AtBottom(info) == info.currentY >= info.maxY - ScrollTolerance

\* current_y <= 10
AtTop(info) == info.currentY <= ScrollTolerance

\* A scroll by one viewport whatever is left of the page.
ScrollAmountUnclamped(direction, info) == info.viewportHeight

\* scroll_amount: one viewport, or what is left of the page when that is
\* less.
ScrollAmount(direction, info) ==
    IF direction = "up"
    THEN Min(info.viewportHeight, info.currentY)
    ELSE Min(info.viewportHeight, info.maxY - info.currentY)

\* The scroll command of the position-checked branches: none when the page
\* is at the edge asked for; a direction that is none of the four is taken
\* as "down".
CheckedCommand(direction, info) ==
    CASE direction = "up" ->
            IF AtTop(info) THEN <<>>
            ELSE <<[call |-> "scrollBy", dy |-> 0 - ScrollAmount(direction, info)]>>
      [] direction = "top" ->
            IF AtTop(info) THEN <<>>
            ELSE <<[call |-> "scrollTo", to |-> "0"]>>
      [] direction = "bottom" ->
            IF AtBottom(info) THEN <<>>
            ELSE <<[call |-> "scrollTo", to |-> "document.body.scrollHeight"]>>
      [] OTHER ->
            IF AtBottom(info) THEN <<>>
            ELSE <<[call |-> "scrollBy", dy |-> ScrollAmount(direction, info)]>>

\* The page.evaluate calls of the position-checked branches, in order: the
\* position script, the scroll command, and for "down" and "up" the read of
\* the new position.
CheckedCalls(direction, info) ==
    <<"scroll_info">>
    \o [i \in 1..Len(CheckedCommand(direction, info)) |-> "command"]
    \o (IF direction \in {"down", "up"} /\ CheckedCommand(direction, info) # <<>>
        THEN <<"new_position">> ELSE <<>>)

\* What the backend does during scroll: the raise_at-th call of the
\* position-checked branches raises (none when it is 0), the page is where
\* the command sent it when its position is read again or is still where it
\* was, and each of the two fallbacks returns or raises.
ScrollOutcomes ==
    {[raise_at |-> 0, moved |-> m, fallback |-> "ok", js |-> "ok"] :
        m \in BOOLEAN}
    \cup {[raise_at |-> n, moved |-> TRUE, fallback |-> f[1], js |-> f[2]] :
            n \in 1..3,
            f \in {<<"ok", "ok">>, <<"raise", "ok">>, <<"raise", "raise">>}}

\* The string of the position-checked branches.
CheckedResult(direction, info, o) ==
    LET amount == ScrollAmount(direction, info)
        new_position ==
            IF ~o.moved THEN info.currentY
            ELSE IF direction = "up" THEN info.currentY - amount
            ELSE info.currentY + amount
    IN  CASE direction = "down" ->
                IF AtBottom(info)
                THEN [fmt |-> "Already at the bottom of the page - cannot scroll down further"]
                ELSE IF new_position >= info.maxY - ScrollTolerance
                THEN [fmt |-> "Scrolled down and reached the bottom of the page"]
                ELSE [fmt |-> "Scrolled down scroll_amountpx - showing new content",
                      scroll_amount |-> amount]
          [] direction = "up" ->
                IF AtTop(info)
                THEN [fmt |-> "Already at the top of the page - cannot scroll up further"]
                ELSE IF new_position <= ScrollTolerance
                THEN [fmt |-> "Scrolled up and reached the top of the page"]
                ELSE [fmt |-> "Scrolled up scroll_amountpx - showing previous content",
                      scroll_amount |-> amount]
          [] direction = "top" ->
                IF AtTop(info)
                THEN [fmt |-> "Already at the top of the page"]
                ELSE [fmt |-> "Scrolled to top of the page"]
          [] direction = "bottom" ->
                IF AtBottom(info)
                THEN [fmt |-> "Already at the bottom of the page"]
                ELSE [fmt |-> "Scrolled to bottom of the page"]
          [] OTHER ->
                IF AtBottom(info)
                THEN [fmt |-> "Invalid direction 'direction' - already at bottom, cannot scroll down",
                      direction |-> direction]
                ELSE [fmt |-> "Invalid direction 'direction', defaulted to scrolling down scroll_amountpx",
                      direction |-> direction, scroll_amount |-> amount]

\* The command of the first fallback, which checks no position, and its
\* string.
FallbackCommand(direction) ==
    CASE direction = "top" -> [call |-> "scrollTo", to |-> "0"]
      [] direction = "bottom" ->
            [call |-> "scrollTo", to |-> "document.body.scrollHeight"]
      [] direction = "up" -> [call |-> "scrollBy", viewports |-> 0 - 1]
      [] OTHER -> [call |-> "scrollBy", viewports |-> 1]

FallbackResult(direction) ==
    CASE direction = "top" -> [fmt |-> "Scrolled to top (fallback method)"]
      [] direction = "bottom" -> [fmt |-> "Scrolled to bottom (fallback method)"]
      [] direction = "up" -> [fmt |-> "Scrolled up one viewport (fallback method)"]
      [] OTHER ->
            [fmt |-> "Scrolled down one viewport (fallback method) for direction: direction",
             direction |-> direction]

\* The body of scroll: the scroll commands it sends to the page, in order,
\* and the string it returns.
ScrollCall(direction, info, o) ==
    IF o.raise_at = 0
    THEN [commands |-> CheckedCommand(direction, info),
          result |-> CheckedResult(direction, info, o)]
    ELSE LET sent == IF o.raise_at = 1 THEN <<>>
                     ELSE CheckedCommand(direction, info)
         IN  IF o.fallback = "ok"
             THEN [commands |-> Append(sent, FallbackCommand(direction)),
                   result |-> FallbackResult(direction)]
             ELSE [commands |-> sent \o <<FallbackCommand(direction),
                                          [call |-> "script",
                                           direction |-> direction]>>,
                   result |->
                     IF o.js = "ok"
                     THEN [fmt |-> "JavaScript fallback scroll used for direction: direction",
                           direction |-> direction]
                     ELSE [fmt |-> "Error scrolling: e - All fallbacks failed: Basic(e), JS(e)"]]

\* One call of scroll on a page at any offset; recorded says whether the
\* call is written to input_log.
ScrollStep(recorded) ==
    /\ \E direction \in Directions :
       \E info \in ScrollInfos :
       \E o \in {x \in ScrollOutcomes :
                    x.raise_at <= Len(CheckedCalls(direction, info))} :
       \E run \in {ScrollCall(direction, info, o)} :
            /\ tool_result' = run.result
            /\ input_log' =
                 IF recorded
                 THEN [op |-> "scroll", direction |-> direction, info |-> info,
                       raise_at |-> o.raise_at, commands |-> run.commands]
                 ELSE None
    /\ click_log' = None
    /\ UNCHANGED <<page_elements, cursor, focus, loopVars, memVars>>

\* The tool scroll.
Scroll == ScrollStep(FALSE)

\* The tool scroll, with the position it was called at and the commands it
\* sent kept for inspection.
ScrollRecorded == ScrollStep(TRUE)

SurfaceNext ==
    \/ AnalyzePage
    \/ Type
    \/ Navigate
    \/ GoBack
    \/ Scroll

\* The tools analyze_page, type, navigate, go_back and scroll called in any
\* order.
SpecSurface == InitBrowser /\ [][SurfaceNext]_vars

ScrollNext ==
    \/ ScrollRecorded

\* scroll called any number of times.
SpecScroll == InitBrowser /\ [][ScrollNext]_vars

\* ------------------------------------------------------ keyboard_action

\* The segments a key specification splits into at its commas and
\* semicolons: the name of a special key as the caller may write it, a text
\* that names no key, and a hold-and-press pattern.
KeySegments == {"Enter", "x", "hold shift tab"}

\* The key specifications keyboard_action is called with, as the list of
\* their segments; a specification of one segment has no separator.
KeySpecs == UNION {[1..n -> KeySegments] : n \in 1..MaxKeys}

\* single_key.strip().lower()
NormalizeKey(segment) == IF segment = "Enter" THEN "enter" ELSE segment

\* The entries of special_keys the segments can name.
SpecialKeys == [tab |-> "Tab", enter |-> "Enter"]

\* re.match(r'hold\s+(\w+),?\s+(?:press\s+)?(\w+)', key)
HoldMatch(key) == key = "hold shift tab"

\* The test keyboard_action makes of a key before it executes it.
ValidKey(key) == key \in DOMAIN SpecialKeys \/ HoldMatch(key)

\* _execute_special_key_action: the calls it makes on page.keyboard and
\* the string it returns when they all return.
KeyCalls(key) ==
    IF key \in DOMAIN SpecialKeys
    THEN <<[call |-> "press",
            key |-> IF SpecialKeys[key] = " " THEN "Space" ELSE SpecialKeys[key]]>>
    ELSE <<[call |-> "down", key |-> "Shift"],
           [call |-> "press", key |-> "Tab"],
           [call |-> "up", key |-> "Shift"]>>

KeyReport(key) ==
    IF key \in DOMAIN SpecialKeys
    THEN [fmt |-> "Pressed key", key |-> key]
    ELSE [fmt |-> "Held modifier and pressed key", modifier |-> "shift",
          key |-> "tab"]

InvalidKey(key) ==
    [fmt |-> "Error: 'key' is not a valid special key or combination. Use fill_input for typing text.",
     key |-> key]

\* The for loop of keyboard_action from segment i on: calls holds the
\* keyboard calls made so far, each with the position of its segment, and
\* results the strings collected; the fail_at-th keyboard call raises (none
\* when fail_at is 0), which the outer except turns into a string.
RECURSIVE KeyLoop(_, _, _, _, _)
KeyLoop(segments, i, fail_at, calls, results) ==
    IF i > Len(segments)
    THEN [calls |-> calls,
          result |-> [fmt |-> "Executed key sequence: results",
                      results |-> results]]
    ELSE LET key == NormalizeKey(segments[i])
             made == [j \in 1..Len(KeyCalls(key)) |->
                         [at |-> i, call |-> KeyCalls(key)[j].call,
                          key |-> KeyCalls(key)[j].key]]
         IN  IF ~ValidKey(key)
             THEN [calls |-> calls, result |-> InvalidKey(key)]
             ELSE IF fail_at > Len(calls) /\ fail_at <= Len(calls) + Len(made)
             THEN [calls |-> calls \o SubSeq(made, 1, fail_at - Len(calls)),
                   result |-> OuterExcept("Error with keyboard action: e")]
             ELSE KeyLoop(segments, i + 1, fail_at, calls \o made,
                          Append(results, KeyReport(key)))

\* A key sequence checked as a whole before any key is pressed.
KeySequenceAtomic(segments, fail_at) ==
    IF \E i \in DOMAIN segments : ~ValidKey(NormalizeKey(segments[i]))
    THEN [calls |-> <<>>,
          result |-> InvalidKey(NormalizeKey(segments[
                        CHOOSE i \in DOMAIN segments :
                            /\ ~ValidKey(NormalizeKey(segments[i]))
                            /\ \A j \in 1..(i - 1) :
                                  ValidKey(NormalizeKey(segments[j]))]))]
    ELSE KeyLoop(segments, 1, fail_at, <<>>, <<>>)

\* The sequence branch of keyboard_action.
KeySequence(segments, fail_at) == KeyLoop(segments, 1, fail_at, <<>>, <<>>)

\* The single-key branch of keyboard_action: the string of the one action.
SingleKey(segment, fail_at) ==
    LET run == KeyLoop(<<segment>>, 1, fail_at, <<>>, <<>>)
    IN  IF run.result.fmt = "Executed key sequence: results"
        THEN [calls |-> run.calls, result |-> run.result.results[1]]
        ELSE run

\* The tool keyboard_action: any one of the keyboard calls a run without a
\* failure makes may raise; a key press may move the focus.
KeyboardAction ==
    /\ \E segments \in KeySpecs :
       \E smooth \in {KeyLoop(segments, 1, 0, <<>>, <<>>)} :
       \E fail_at \in 0..Len(smooth.calls) :
       \E run \in {IF Len(segments) > 1
                   THEN KeySequence(segments, fail_at)
                   ELSE SingleKey(segments[1], fail_at)} :
            /\ input_log' = [op |-> "keyboard_action", input |-> segments,
                             calls |-> run.calls, raised |-> fail_at # 0]
            /\ tool_result' = run.result
            /\ focus' \in IF run.calls = <<>> THEN {focus} ELSE {focus, "INPUT"}
    /\ click_log' = None
    /\ UNCHANGED <<page_elements, cursor, loopVars, memVars>>

KeyboardNext ==
    \/ KeyboardAction

\* keyboard_action called any number of times.
SpecKeyboard == InitBrowser /\ [][KeyboardNext]_vars

\* --------------------------------------- Session Memory called directly

\* The memory calls made so far, as messages in the order they were added:
\* add_message adds one, add_exchange two, add_task none.
RECURSIVE MessagesAdded(_)
MessagesAdded(calls) ==
    IF calls = <<>> THEN <<>>
    ELSE LET c == calls[Len(calls)]
             before == MessagesAdded(SubSeq(calls, 1, Len(calls) - 1))
         IN  CASE c.call = "add_message" ->
                    Append(before, [role |-> c.role, content |-> c.content,
                                    tool_calls |-> <<>>])
               [] c.call = "add_exchange" ->
                    before \o <<[role |-> "user", content |-> c.human_input,
                                 tool_calls |-> <<>>],
                                [role |-> "assistant", content |-> c.ai_response,
                                 tool_calls |-> <<>>]>>
               [] OTHER -> before

\* Memory.add_message on a session memory built with MemorySize; the content
\* is the number of the call.
MemAddMessage ==
    /\ Len(exchanges) < MaxCalls
    /\ \E role \in {"user", "assistant"} :
       \E content \in {Len(exchanges) + 1} :
            /\ conv_messages' =
                  AddMessage(conv_messages, role, content, <<>>, MemorySize)
            /\ exchanges' = Append(exchanges, [call |-> "add_message",
                                               role |-> role, content |-> content])
    /\ UNCHANGED <<task_history, interaction_count, memory, max_iterations,
                   messages, iteration, pc, response, tool_idx, result, outcome,
                   llm_calls, llm_seen, tool_invocations, memory_reads,
                   conv_start, browserVars,
                   stream>>

\* SessionMemory.add_exchange, with and without a task result.
MemAddExchange ==
    /\ Len(exchanges) < MaxCalls
    /\ \E task_result \in {None, [success |-> TRUE], [success |-> FALSE]} :
       \E n \in {Len(exchanges) + 1} :
       \E mem \in {AddExchangeTo(Mem, n, 0 - n, task_result, MemorySize)} :
            /\ SetMem(mem)
            /\ exchanges' = Append(exchanges, [call |-> "add_exchange",
                                               human_input |-> n,
                                               ai_response |-> 0 - n,
                                               task_result |-> task_result])
    /\ UNCHANGED <<memory, max_iterations, messages, iteration, pc, response,
                   tool_idx, result, outcome, llm_calls, llm_seen,
                   tool_invocations, memory_reads, conv_start, browserVars,
                   stream>>

\* ConversationMemory.add_task
MemAddTask ==
    /\ Len(exchanges) < MaxCalls
    /\ \E success \in BOOLEAN :
       \E n \in {Len(exchanges) + 1} :
            /\ task_history' = AddTask(task_history, n, 0 - n, success, MemorySize)
            /\ exchanges' = Append(exchanges, [call |-> "add_task", task |-> n,
                                               result |-> 0 - n,
                                               success |-> success])
    /\ UNCHANGED <<conv_messages, interaction_count, memory, max_iterations,
                   messages, iteration, pc, response, tool_idx, result, outcome,
                   llm_calls, llm_seen, tool_invocations, memory_reads,
                   conv_start, browserVars,
                   stream>>

MemoryNext ==
    \/ MemAddMessage
    \/ MemAddExchange
    \/ MemAddTask

\* The memory calls made in any order on an empty session memory.
SpecMemory == InitBrowser /\ [][MemoryNext]_vars

\* SessionMemory.clear: conversation.clear() and context.clear() are both
\* Memory.clear, which empties the messages of the memory it is called on and
\* nothing else (the context memory's messages are written by no call and
\* stay empty).
SessionClear(mem) ==
    [messages |-> <<>>,
     task_history |-> mem.task_history,
     interaction_count |-> mem.interaction_count]

MemClear ==
    /\ Len(exchanges) < MaxCalls
    /\ SetMem(SessionClear(Mem))
    /\ exchanges' = Append(exchanges, [call |-> "clear"])
    /\ UNCHANGED <<memory, max_iterations, messages, iteration, pc, response,
                   tool_idx, result, outcome, llm_calls, llm_seen,
                   tool_invocations, memory_reads, conv_start, browserVars,
                   stream>>

MemoryClearNext ==
    \/ MemAddMessage
    \/ MemAddExchange
    \/ MemAddTask
    \/ MemClear

\* The memory calls and clear made in any order on an empty session memory.
SpecMemoryClear == InitBrowser /\ [][MemoryClearNext]_vars

\* ------------------------------------------------------------ properties

IsPrefix(a, b) == Len(a) <= Len(b) /\ SubSeq(b, 1, Len(a)) = a

\* The positions of the assistant messages of a history.
AssistantPositions(history) ==
    {p \in DOMAIN history : history[p].role = "assistant"}

\* The positions of the tool messages of a history.
ToolPositions(history) == {q \in DOMAIN history : history[q].role = "tool"}

\* The assistant message a tool message at position q follows.
Owner(history, q) ==
    CHOOSE p \in AssistantPositions(history) :
        /\ p < q
        /\ \A r \in AssistantPositions(history) : r < q => r <= p

\* The tool call the tool message at position q of the history answers.
CallOf(q) == messages[Owner(messages, q)].tool_calls[q - Owner(messages, q)]

\* Every response so far carried at least one tool call.
AllToolTurns ==
    \A p \in AssistantPositions(messages) : messages[p].tool_calls # <<>>

\* No inference call can be made in this state.
NoInference == ~ENABLED AssistantFinal /\ ~ENABLED AssistantToolCalls

\* C1: when every response carries a tool call, invoke returns after exactly
\* max_iterations inference calls (none for max_iterations = 0), its output is
\* the fixed exhaustion message, and no inference call can follow.
C1_ExhaustsAfterMaxIterations ==
    (pc = "returned" /\ AllToolTurns) =>
        /\ outcome = "MAX_ITERATIONS_REACHED"
        /\ llm_calls = max_iterations
        /\ Cardinality(AssistantPositions(messages)) = max_iterations
        /\ result.output = FinalMessage(max_iterations)
        /\ NoInference

C1_Witness ==
    /\ pc = "returned"
    /\ AllToolTurns
    /\ max_iterations = MaxIterations
    /\ llm_calls = MaxIterations
    /\ result.output = FinalMessage(MaxIterations)

\* C2: when every inference call and every tool call returns, invoke
\* eventually returns, as DONE or as MAX_ITERATIONS_REACHED and nothing else,
\* and at every moment it has made at most max_iterations inference calls.
C2_TerminatesWithinBudget ==
    /\ <>(pc = "returned")
    /\ [](llm_calls <= max_iterations)
    /\ []((pc = "returned") <=> (outcome \in {"DONE", "MAX_ITERATIONS_REACHED"}))
    /\ [](pc # "returned" => outcome = "none")

C2_Witness ==
    /\ pc = "returned"
    /\ outcome = "DONE"
    /\ llm_calls = max_iterations
    /\ max_iterations = MaxIterations
    /\ tool_invocations # <<>>

\* C3: the first response without tool calls ends the loop in DONE: it is the
\* last message of the history and the only response without tool calls, the
\* output is its text, no tool ran after it and no inference call can follow.
C3_FirstPlainResponseEndsLoop ==
    /\ (\E p \in AssistantPositions(messages) : messages[p].tool_calls = <<>>)
            <=> outcome = "DONE"
    /\ outcome = "DONE" =>
        /\ pc = "returned"
        /\ messages[Len(messages)].role = "assistant"
        /\ \A p \in AssistantPositions(messages) :
                messages[p].tool_calls = <<>> <=> p = Len(messages)
        /\ result.output = messages[Len(messages)].content
        /\ result.messages = messages
        /\ llm_calls = Cardinality(AssistantPositions(messages))
        /\ Len(tool_invocations) <= Cardinality(ToolPositions(messages))
        /\ NoInference
        /\ ~ENABLED ToolCallRegistered
        /\ ~ENABLED ToolCallUnknown

C3_Witness ==
    /\ outcome = "DONE"
    /\ llm_calls = 2
    /\ messages[3].content # messages[Len(messages)].content
    /\ result.output = messages[Len(messages)].content

\* The number of tool calls of the response at position p answered so far.
Answered(p) ==
    IF pc = "tools" /\ \A r \in AssistantPositions(messages) : r <= p
    THEN tool_idx - 1
    ELSE Len(messages[p].tool_calls)

\* In a history handed to the backend every turn is complete.
TurnsComplete(history) ==
    \A p \in AssistantPositions(history) :
        /\ p + Len(history[p].tool_calls) <= Len(history)
        /\ \A i \in 1..Len(history[p].tool_calls) :
                /\ history[p + i].role = "tool"
                /\ history[p + i].tool_call_id = history[p].tool_calls[i].id

\* C4: a response with tool calls c1..cm is followed directly by the tool
\* messages answering c1, c2, ... in that order, one per call and no more,
\* and every history handed to the backend holds all m of them.
C4_ToolMessagesInCallOrder ==
    /\ \A q \in ToolPositions(messages) :
            \E p \in AssistantPositions(messages) : p < q
    /\ \A p \in AssistantPositions(messages) :
        LET calls == messages[p].tool_calls
            d == Answered(p)
        IN  /\ p + d <= Len(messages)
            /\ \A i \in 1..d :
                    /\ messages[p + i].role = "tool"
                    /\ messages[p + i].tool_call_id = calls[i].id
            /\ p + d + 1 <= Len(messages) => messages[p + d + 1].role = "assistant"
            /\ d < Len(calls) => p + d = Len(messages)
    /\ \A k \in DOMAIN llm_seen : TurnsComplete(llm_seen[k])

C4_Witness ==
    /\ llm_calls = 2
    /\ Len(messages[3].tool_calls) = 3
    /\ messages[4].content = Str("ok")
    /\ messages[5].content = ErrorExecuting("click", "RuntimeError")
    /\ messages[6].content = ToolNotFound("bogus")
    /\ messages[7].role = "assistant"

\* The loop went on after the message at the end of the history: it is in
\* the for loop or the while loop, or it returned by exhausting the ceiling.
LoopWentOn ==
    \/ pc \in {"tools", "loop"}
    \/ /\ pc = "returned"
       /\ outcome = "MAX_ITERATIONS_REACHED"
       /\ llm_calls = max_iterations

\* C5: a tool call whose name is not in the tool map invokes no tool and is
\* answered by the message 'Tool <name> not found' carrying its id; the loop
\* goes on after it.
C5_UnknownToolReported ==
    /\ \A q \in ToolPositions(messages) :
        CallOf(q).name \notin RegisteredTools =>
            /\ messages[q] = ToolMessage(ToolNotFound(CallOf(q).name), CallOf(q).id)
            /\ \A j \in DOMAIN tool_invocations : tool_invocations[j] # CallOf(q).id
    /\ (/\ Len(messages) > 2
        /\ messages[Len(messages)].role = "tool"
        /\ CallOf(Len(messages)).name \notin RegisteredTools) => LoopWentOn

C5_Witness ==
    /\ Len(messages) = 6
    /\ messages[4] = ToolMessage(ToolNotFound("bogus"), CallId(1, 1))
    /\ messages[5] = ToolMessage(Str("ok"), CallId(1, 2))
    /\ messages[6].role = "assistant"
    /\ tool_invocations = <<CallId(1, 2)>>

\* C6: a registered tool that raises, also on arguments that do not fit its
\* parameters, is answered by a tool message with the error text and the
\* call's id; invoke is not left by the exception and the loop goes on.
C6_ToolErrorRecorded ==
    /\ \A q \in ToolPositions(messages) :
        CallOf(q).name \in RegisteredTools =>
            /\ messages[q].tool_call_id = CallOf(q).id
            /\ \E j \in DOMAIN tool_invocations : tool_invocations[j] = CallOf(q).id
            /\ \E o \in ToolInvoke(CallOf(q).args) :
                messages[q].content =
                    IF o.raised THEN ErrorExecuting(CallOf(q).name, o.v)
                    ELSE Str(o.v)
            /\ CallOf(q).args = "misfit" =>
                messages[q].content = ErrorExecuting(CallOf(q).name, "TypeError")
    /\ (/\ Len(messages) > 2
        /\ messages[Len(messages)].role = "tool"
        /\ messages[Len(messages)].content.fmt = "Error executing name: e")
            => LoopWentOn
    /\ pc # "raised"

C6_Witness ==
    /\ Len(messages) = 7
    /\ messages[4] = ToolMessage(ErrorExecuting("click", "TypeError"), CallId(1, 1))
    /\ messages[5] = ToolMessage(ErrorExecuting("click", "RuntimeError"), CallId(1, 2))
    /\ messages[6] = ToolMessage(Str("ok"), CallId(1, 3))
    /\ messages[7].role = "assistant"

\* C7: no failure leaves invoke as an exception: whatever the backend returns
\* or raises, invoke returns a record whose output is a string.
C7_NoExceptionEscapes ==
    /\ pc # "raised"
    /\ outcome # "EXCEPTION"

\* C8: the history starts as [system message, user message]; every history
\* handed to the backend is a prefix of the current one and is the whole
\* history up to the response that call returned.
C8_HistoryAppendOnly ==
    /\ pc # "idle" =>
        /\ Len(messages) >= 2
        /\ messages[1] = SystemMessage(messages[1].content)
        /\ messages[2] = HumanMessage(Text(InputText))
    /\ Len(llm_seen) = llm_calls
    /\ \A k \in DOMAIN llm_seen :
        /\ IsPrefix(llm_seen[k], messages)
        /\ k = 1 => Len(llm_seen[k]) = 2
        /\ k > 1 => IsPrefix(llm_seen[k - 1], llm_seen[k])
        /\ Len(llm_seen[k]) < Len(messages) =>
                messages[Len(llm_seen[k]) + 1].role = "assistant"
        /\ Cardinality(AssistantPositions(llm_seen[k])) = k - 1
    /\ pc = "returned" => result.messages = messages

C8_Witness ==
    /\ llm_calls = 2
    /\ Len(llm_seen[1]) = 2
    /\ Len(llm_seen[2]) = 5
    /\ Len(messages) = 6

\* C9: with a memory attached, an invocation reads the memory context once
\* and appends to the memory once, when it returns: the conversation then
\* holds what it held before plus the input and the final output.
C9_MemoryAppendedOnce ==
    (memory /\ pc = "returned") =>
        /\ memory_reads = 1
        /\ Len(exchanges) = 1
        /\ exchanges[1].human_input = result.input
        /\ exchanges[1].ai_response = result.output
        /\ conv_messages =
              conv_start \o <<[role |-> "user", content |-> result.input,
                               tool_calls |-> <<>>],
                              [role |-> "assistant", content |-> result.output,
                               tool_calls |-> <<>>]>>

\* The index an id names on a list: int(id) when it is one and in range.
ValidIndex(id, elements) ==
    /\ id # None
    /\ PyInt(id).ok
    /\ 0 <= PyInt(id).v
    /\ PyInt(id).v < Len(elements)

\* C10: when click is called with a target whose id k is an index of the
\* non-empty snapshot held at the call, the record it resolves is the one at
\* index k of that snapshot, whatever type and text the target carries; the
\* call does not scroll, runs no snapshot pass, and leaves the snapshot as
\* it was.
C10_IdShortCircuits ==
    (/\ click_log # None
     /\ click_log.searched # <<>>
     /\ ValidIndex(click_log.parsed.id, click_log.searched))
    => /\ click_log.element = click_log.searched[PyInt(click_log.parsed.id).v + 1]
       /\ click_log.tier = 1
       /\ click_log.scrolls = 0
       /\ click_log.analyses = 0
       /\ page_elements = click_log.searched

\* A click by id on the second record, with a type and a text that record
\* does not satisfy.
C10_Witness ==
    /\ click_log # None
    /\ ValidIndex(click_log.parsed.id, click_log.searched)
    /\ PyInt(click_log.parsed.id).v = 1
    /\ click_log.element = click_log.searched[2]
    /\ click_log.parsed.type # None
    /\ click_log.parsed.text # None
    /\ ~TypeMatch(click_log.parsed.type, click_log.element)
    /\ ~TextMatch(click_log.parsed.text, click_log.element)

\* The positions of the list whose record satisfies the target's type and
\* text.
MatchPositions(parsed, elements) ==
    {i \in DOMAIN elements : TypeMatch(parsed.type, elements[i])
                             /\ TextMatch(parsed.text, elements[i])}

\* The smallest member of a non-empty set of positions.
Least(S) == CHOOSE i \in S : \A j \in S : i <= j

\* C11: when click is called on a non-empty snapshot with a target whose id
\* is negative, at or past the end of the snapshot, or not an integer, tier 1
\* resolves nothing and the attribute search runs on that same snapshot with
\* the target's type and text: if some record satisfies them, the first such
\* record is resolved, at tier 2, without scrolling or a snapshot pass.
C11_BadIdFallsThrough ==
    (/\ click_log # None
     /\ click_log.searched # <<>>
     /\ click_log.parsed.id # None
     /\ ~ValidIndex(click_log.parsed.id, click_log.searched))
    => /\ click_log.tier # 1
       /\ MatchPositions(click_log.parsed, click_log.searched) # {}
            => /\ click_log.tier = 2
               /\ click_log.element =
                    click_log.searched[Least(MatchPositions(click_log.parsed,
                                                            click_log.searched))]
               /\ click_log.scrolls = 0
               /\ click_log.analyses = 0
               /\ page_elements = click_log.searched

\* A click with a negative id and a type that the second record satisfies
\* and the first does not.
C11_Witness ==
    /\ click_log # None
    /\ click_log.parsed.id = [k |-> "int", v |-> -1]
    /\ click_log.parsed.type # None
    /\ Len(click_log.searched) = 2
    /\ MatchPositions(click_log.parsed, click_log.searched) = {2}
    /\ click_log.tier = 2
    /\ click_log.element = click_log.searched[2]

\* The type condition of tier 2 as stated: no type, the record's type or
\* tag, or 'button' for a record that is a button by tag, type or class.
StatedTypeMatch(target_type, elem) ==
    \/ target_type = None
    \/ target_type.v = elem.type
    \/ target_type.v = LowerWord(elem.tagName)
    \/ /\ target_type.v = "button"
       /\ \/ LowerWord(elem.tagName) = "button"
          \/ elem.type = "button"
          \/ ContainsBtn(Get(elem, "className", ""))

\* The text condition of tier 2 as stated: no text, a substring of the
\* record's text, or equal to its value, placeholder or aria-label, all
\* without regard to case.
StatedTextMatch(target_text, elem) ==
    \/ target_text = None
    \/ Contains(LowerStr(target_text.v), LowerStr(elem.text))
    \/ \E key \in {"value", "placeholder", "aria-label"} :
          LowerStr(Attr(elem, key, <<>>)) = LowerStr(target_text.v)

StatedMatchPositions(parsed, elements) ==
    {i \in DOMAIN elements : StatedTypeMatch(parsed.type, elements[i])
                             /\ StatedTextMatch(parsed.text, elements[i])}

\* The snapshot [button 'Submit', link 'Submit order'].
SubmitExample == <<WithId(SubmitButton, 0), WithId(SubmitOrderLink, 1)>>

FlaggedPositions(S, elements) ==
    {i \in S : Get(elements[i], "visible", FALSE)
               /\ Get(elements[i], "inViewport", FALSE)}

C14_OneRescanCycle ==
    (/\ click_log # None
     /\ click_log.tier \notin {1, 2})
    => /\ click_log.scrolls = 1
       /\ click_log.analyses = 1

\* The list holds the record.
Holds(elements, element) == \E i \in DOMAIN elements : elements[i] = element

\* C15: when a click enters tier 3, the filter runs on the records of the
\* snapshot the fresh pass produced: a record tier 3 resolves is a record
\* of that new snapshot, and if the new snapshot has a record that satisfies
\* the target, tier 3 resolves one.
C15_Tier3SearchesNewSnapshot ==
    (/\ click_log # None
     /\ click_log.analyses = 1)
    => /\ click_log.element # None => Holds(page_elements, click_log.element)
       /\ EnhancedSearch(click_log.parsed, page_elements) # None
            => click_log.element # None

\* C16: when click acts on a record (moves the cursor to it and runs the
\* strategies on it), that record is a record of the process-wide snapshot
\* as the most recent pass left it, the pass of tier 3 included.
C16_ActsOnCurrentSnapshot ==
    (/\ click_log # None
     /\ click_log.cursor_updates = 1)
    => Holds(page_elements, click_log.element)

\* analyze_page has just returned.
Analyzed == click_log = None /\ "fmt" \in DOMAIN tool_result

\* C17: after every analyze_page the cached snapshot is the one of this
\* pass: the records the pass returned when the evaluation succeeded, the
\* empty list when it failed, in which case the call returns the diagnostic
\* string.
C17_AnalyzeReplacesSnapshot ==
    Analyzed =>
        \/ /\ tool_result.fmt = "page content"
           /\ page_elements = tool_result.elements
        \/ /\ tool_result.fmt = "Error analyzing page: e"
           /\ page_elements = <<>>

\* A failed pass after a click on a record of an earlier snapshot.
C17_Witness ==
    /\ Analyzed
    /\ tool_result.fmt = "Error analyzing page: e"
    /\ page_elements = <<>>
    /\ cursor # <<100, 100>>

\* The record comes from a popup.
IsPopup(e) == "isPopup" \in DOMAIN e /\ e.isPopup

StrategyOrder == <<"coordinate", "selector", "script", "text search", "event">>

Rank(strategy) == CHOOSE k \in DOMAIN StrategyOrder : StrategyOrder[k] = strategy

\* The click ran the cascade.
CascadeRan == click_log # None /\ click_log.attempts # <<>>

\* C19: click attempts its strategies in the order coordinate, selector,
\* script, text search, event, beginning with the coordinate click; every
\* strategy attempted before another one reported a failure, so nothing is
\* attempted after a success.
C19_CascadeOrder ==
    CascadeRan =>
        /\ click_log.attempts[1] = "coordinate"
        /\ Len(click_log.reports) = Len(click_log.attempts)
        /\ \A i, j \in DOMAIN click_log.attempts :
              i < j => /\ Rank(click_log.attempts[i]) < Rank(click_log.attempts[j])
                       /\ click_log.reports[i] = "failure"

C19_Witness ==
    /\ CascadeRan
    /\ click_log.attempts = <<"coordinate", "selector", "script">>
    /\ click_log.reports = <<"failure", "failure", "success">>

\* The entries a strategy may leave in the error list.
EntriesOf(strategy) ==
    CASE strategy = "coordinate" -> {"Coordinate click failed: e"}
      [] strategy = "selector" -> {"CSS selector click failed: e"}
      [] strategy = "script" -> {"JavaScript click failed: e"}
      [] strategy = "text search" ->
            {"JavaScript text search click failed: element not found",
             "JavaScript text search click failed: e"}
      [] strategy = "event" -> {"Event dispatch click failed: e"}

ClickedFmt == "Clicked on element: type with text 'text'"

FailedFmt == "Failed to click element after trying multiple methods. Errors: errors"

\* C20: when every attempted strategy reported a failure, click returns the
\* failure string, whose error list has one entry per attempted strategy in
\* the order of the attempts; click returns the success string only when
\* some strategy reported a success.
C20_FailureListsEveryAttempt ==
    CascadeRan =>
        /\ (\A i \in DOMAIN click_log.reports : click_log.reports[i] = "failure")
            => /\ tool_result.fmt = FailedFmt
               /\ Len(tool_result.errors) = Len(click_log.attempts)
               /\ \A i \in DOMAIN click_log.attempts :
                     tool_result.errors[i] \in EntriesOf(click_log.attempts[i])
        /\ tool_result.fmt = ClickedFmt
            => \E i \in DOMAIN click_log.reports : click_log.reports[i] = "success"

\* The last browser call was a click, a type or a select_option.
ExecutorReturned == click_log # None \/ input_log # None

\* C21: click, type and select_option never raise outward: whatever the
\* input and whichever step the backend fails at, the call returns a string.
C21_ExecutorNeverRaises ==
    ExecutorReturned =>
        /\ "fmt" \in DOMAIN tool_result
        /\ "raised" \notin DOMAIN tool_result

\* A select_option whose search of the opened dropdown raised.
C21_Witness ==
    /\ input_log # None
    /\ input_log.op = "select_option"
    /\ input_log.reports = <<"ok", "ok", "raise">>
    /\ tool_result = [fmt |-> "Error selecting option from dropdown: e"]

\* C22: the cursor update has no functional role in click: once a record is
\* resolved the strategies are attempted on it, starting with the coordinate
\* click, and the call returns what the cascade gives, whether the cursor
\* update succeeded or failed.
C22_CursorHasNoRole ==
    (/\ click_log # None
     /\ click_log.cursor_updates = 1)
    => /\ CascadeRan
       /\ click_log.attempts[1] = "coordinate"
       /\ tool_result.fmt \in {ClickedFmt, FailedFmt}

\* No value: none at all, or the empty string.
NoValue(x) == x = None \/ x = [k |-> "str", v |-> <<>>]

\* The last browser call was a type.
Typed == input_log # None /\ input_log.op = "type"

\* C23: a type with a non-empty value attempts the clear step first and then
\* emits the keystrokes of the value, once, whether the clear step returned
\* true, found no input-capable active element or raised; the active element
\* is the one it was before the call.
C23_ClearThenKeystrokes ==
    (Typed /\ ~NoValue(input_log.value))
    => /\ input_log.steps = <<"clear", "keys">>
       /\ input_log.reports[1] \in {"true", "false", "raise"}
       /\ input_log.keystrokes = <<input_log.value>>
       /\ focus = input_log.active

\* A type into a page whose active element is a div: the clear step finds
\* nothing to clear and the keystrokes are emitted.
C23_Witness ==
    /\ Typed
    /\ input_log.active = "DIV"
    /\ input_log.reports = <<"false", "ok">>
    /\ input_log.keystrokes = <<[k |-> "str", v |-> <<"S">>]>>

\* The value the last type or select_option was called with; a text when
\* the input has no such field to read.
CalledValue ==
    IF input_log.op = "type" THEN input_log.value
    ELSE IF input_log.input.kind = "map" THEN input_log.input.value
    ELSE [k |-> "str", v |-> <<"S">>]

\* The last call was a type or a select_option without a value.
CalledWithoutValue == input_log # None /\ NoValue(CalledValue)

\* The call returned the error string and took no browser step.
NoBrowserStep ==
    /\ input_log.steps = <<>>
    /\ tool_result \in {[fmt |-> "Error: 'value' parameter is required."],
                        [fmt |-> "Error: 'value' field is required in the input JSON."]}
    /\ input_log.op = "type" => input_log.keystrokes = <<>>
    /\ input_log.op = "select_option"
         => /\ input_log.tier = 0
            /\ input_log.scrolls = 0
            /\ input_log.analyses = 0

\* C24: a type or a select_option called without a value, or with the empty
\* one, returns an error string and takes no browser step (no clear and no
\* keystroke, no resolution, scroll or snapshot pass, no click); the
\* snapshot, the cursor position and the active element stay as they were.
C24_ValueRequired ==
    [][CalledWithoutValue'
        => /\ NoBrowserStep'
           /\ UNCHANGED <<page_elements, cursor, focus>>]_vars

\* A select_option with the empty value on a page with a snapshot.
C24_Witness ==
    /\ input_log # None
    /\ input_log.op = "select_option"
    /\ input_log.input.kind = "map"
    /\ input_log.input.value = [k |-> "str", v |-> <<>>]
    /\ input_log.input.id = [k |-> "int", v |-> 1]
    /\ Len(page_elements) = 2
    /\ input_log.steps = <<>>

\* C27: every tool returns a status string on every path; navigate returns
\* one when the navigation fails or times out.
C27_ToolsReturnStrings ==
    tool_result # None => "fmt" \in DOMAIN tool_result

\* The last n entries of a sequence, all of them when it has fewer.
LastN(s, n) == IF Len(s) <= n THEN s ELSE SubSeq(s, Len(s) - n + 1, Len(s))

\* The task records the memory calls added, in the order they were added.
RECURSIVE TasksAdded(_)
TasksAdded(calls) ==
    IF calls = <<>> THEN <<>>
    ELSE LET c == calls[Len(calls)]
             before == TasksAdded(SubSeq(calls, 1, Len(calls) - 1))
         IN  CASE c.call = "add_task" ->
                    Append(before, [task |-> c.task, result |-> c.result,
                                    success |-> c.success])
               [] c.call = "add_exchange" /\ c.task_result # None ->
                    Append(before, [task |-> c.human_input,
                                    result |-> c.ai_response,
                                    success |-> c.task_result.success])
               [] OTHER -> before

\* C28: after any sequence of add_message, add_exchange and add_task calls
\* the session memory holds at most its configured maximum of messages and
\* of task records, and what it holds are the most recently added entries in
\* the order they were added: every eviction took the oldest one.
C28_BoundedFifo ==
    /\ Len(conv_messages) <= MemorySize
    /\ Len(task_history) <= MemorySize
    /\ conv_messages = LastN(MessagesAdded(exchanges), MemorySize)
    /\ task_history = LastN(TasksAdded(exchanges), MemorySize)

\* More messages and more task records were added than the memory holds.
C28_Witness ==
    /\ Len(MessagesAdded(exchanges)) > MemorySize
    /\ Len(TasksAdded(exchanges)) > MemorySize
    /\ Len(conv_messages) = MemorySize
    /\ Len(task_history) = MemorySize

\* Every memory call so far was an add_exchange.
OnlyExchanges == \A i \in DOMAIN exchanges : exchanges[i].call = "add_exchange"

\* min(N, limit) for the N exchanges made and the memory's maximum.
RoundTripK == IF Len(exchanges) <= MemorySize THEN Len(exchanges) ELSE MemorySize

\* C29: after N exchanges on an empty session memory, the context window for
\* k = min(N, limit) messages has exactly k entries, the k messages added
\* last, oldest first; for k = 0 it is empty.
C29_RoundTrip ==
    OnlyExchanges =>
        LET window == GetContextWindow(conv_messages, RoundTripK)
            added == MessagesAdded(exchanges)
        IN  /\ Len(window) = RoundTripK
            /\ \A i \in 1..RoundTripK :
                  /\ window[i].role = added[Len(added) - RoundTripK + i].role
                  /\ window[i].content = added[Len(added) - RoundTripK + i].content

\* More exchanges than the memory holds messages: k is the limit.
C29_Witness ==
    /\ OnlyExchanges
    /\ Len(exchanges) > MemorySize
    /\ Len(GetContextWindow(conv_messages, RoundTripK)) = MemorySize

\* The last browser call was a select_option that resolved a record.
SelectResolved ==
    /\ input_log # None
    /\ input_log.op = "select_option"
    /\ input_log.element # None

\* The attempts of the native primitive, in the order the spec gives them.
NativeOrder == <<"label", "value", "index">>

\* C25: on a native select control select_option tries the label first, the
\* value only after the label attempt failed, the index only after both
\* failed and only for a numeric value; it stops at the first attempt that
\* succeeds, and returns a failure string when none does.
C25_NativeSelectOrder ==
    (SelectResolved /\ input_log.element.tagName = "SELECT")
    => /\ input_log.steps # <<>>
       /\ input_log.steps = SubSeq(NativeOrder, 1, Len(input_log.steps))
       /\ \A i \in DOMAIN input_log.steps :
             i < Len(input_log.steps) => input_log.reports[i] = "raise"
       /\ Len(input_log.steps) = 3 => IsDigits(input_log.input.value.v)
       /\ input_log.reports[Len(input_log.steps)] = "ok"
            => tool_result.fmt \in
                  {"Selected option 'value' from dropdown: text by visible text",
                   "Selected option with value 'value' from dropdown: text",
                   "Selected option at index value from dropdown: text"}
       /\ input_log.reports[Len(input_log.steps)] = "raise"
            => tool_result.fmt = "Failed to select option 'value' from dropdown: e"

\* The label and the value attempt failed and the index attempt selected.
C25_Witness ==
    /\ SelectResolved
    /\ input_log.element.tagName = "SELECT"
    /\ input_log.steps = NativeOrder
    /\ input_log.reports = <<"raise", "raise", "ok">>
    /\ input_log.input.value = [k |-> "str", v |-> <<"1">>]

\* C26: on a resolved element that is no native select control, whatever
\* type the snapshot gave it, select_option never calls the native
\* select-option primitive: it moves to the element and clicks it open, then
\* searches the document for the option.
C26_CustomNeverNative ==
    (SelectResolved /\ input_log.element.tagName # "SELECT")
    => /\ \A i \in DOMAIN input_log.steps :
             input_log.steps[i] \notin {"label", "value", "index"}
       /\ input_log.steps # <<>>
       /\ input_log.steps[1] = "cursor"

\* C30: a select_option input with a value and an id that is an index of the
\* snapshot, the number 0 included, resolves to the record at that index
\* whatever its type and text fields are, and is not rejected for lacking a
\* target.
C30_SelectByValidId ==
    (/\ input_log # None
     /\ input_log.op = "select_option"
     /\ input_log.input.kind = "map"
     /\ ~NoValue(input_log.input.value)
     /\ input_log.searched # <<>>
     /\ ValidIndex(input_log.input.id, input_log.searched))
    => /\ input_log.element
            = input_log.searched[PyInt(input_log.input.id).v + 1]
       /\ input_log.tier = 1
       /\ tool_result.fmt # "Error: At least one of 'id', 'type', or 'text' must be provided to identify the element."

\* C31: right after SessionMemory.clear() the conversation messages and the
\* task history are empty, and get_for_llm reports no recent conversation and
\* no successful task.
C31_ClearEmptiesAll ==
    (exchanges # <<>> /\ exchanges[Len(exchanges)].call = "clear")
    => /\ conv_messages = <<>>
       /\ task_history = <<>>
       /\ GetForLLM(Mem, IncludeRecentMessages).recent = <<>>
       /\ GetForLLM(Mem, IncludeRecentMessages).successful = 0

\* A click whose target is a mapping with an id and neither type nor text,
\* the id being an integer that is no index of the snapshot searched.
ClickedByBadIdOnly ==
    /\ click_log # None
    /\ click_log.target.kind = "map"
    /\ click_log.target.id # None
    /\ click_log.target.type = None
    /\ click_log.target.text = None
    /\ PyInt(click_log.parsed.id).ok
    /\ ~ValidIndex(click_log.parsed.id, click_log.searched)

\* C32: a click whose only criterion is an id out of range, on a non-empty
\* snapshot, resolves at tier 2 to the first record of the snapshot: it does
\* not scroll, runs no snapshot pass and does not report not-found.
C32_BadIdOnlyTakesFirst ==
    (ClickedByBadIdOnly /\ click_log.searched # <<>>)
    => /\ click_log.element = click_log.searched[1]
       /\ click_log.tier = 2
       /\ click_log.scrolls = 0
       /\ click_log.analyses = 0
       /\ page_elements = click_log.searched
       /\ tool_result # NotFoundText(click_log.target, click_log.parsed)

\* A click by the id MaxElements alone on a snapshot of two records, which
\* lands on the first.
C32_Witness ==
    /\ ClickedByBadIdOnly
    /\ click_log.target.id = [k |-> "int", v |-> MaxElements]
    /\ Len(click_log.searched) = 2
    /\ click_log.element = click_log.searched[1]
    /\ click_log.cursor_updates = 1

\* The last call was a click on an empty snapshot.
ClickedOnEmpty == click_log # None /\ click_log.searched = <<>>

\* The last call was a select_option that reached the resolution on an empty
\* snapshot.
SelectedOnEmpty ==
    /\ input_log # None
    /\ input_log.op = "select_option"
    /\ input_log.parsed # None
    /\ input_log.searched = <<>>

\* C33: click and select_option on an empty snapshot run none of the three
\* tiers: no scroll, no snapshot pass, no cursor update and no strategy; the
\* snapshot stays empty and the not-found string is returned.
C33_EmptySnapshotSkipsTiers ==
    /\ ClickedOnEmpty =>
          /\ click_log.element = None
          /\ click_log.tier = 0
          /\ click_log.scrolls = 0
          /\ click_log.analyses = 0
          /\ click_log.cursor_updates = 0
          /\ click_log.attempts = <<>>
          /\ page_elements = <<>>
          /\ tool_result.fmt \in
                {"No elements matching criteria found, even after scrolling.",
                 "No elements matching 'target' found, even after scrolling."}
    /\ SelectedOnEmpty =>
          /\ input_log.element = None
          /\ input_log.tier = 0
          /\ input_log.scrolls = 0
          /\ input_log.analyses = 0
          /\ input_log.steps = <<>>
          /\ page_elements = <<>>
          /\ tool_result.fmt \in
                {"No dropdown matching criteria found, even after scrolling.",
                 "No dropdown matching 'target' found, even after scrolling."}

\* A select_option by text on the empty snapshot a failed pass left behind.
C33_Witness ==
    /\ SelectedOnEmpty
    /\ input_log.input.text # None
    /\ focus # "BODY"
    /\ page_elements = <<>>

\* The evaluation of strategy 5's script raised.
EventRaised ==
    \E i \in DOMAIN click_log.errors :
        click_log.errors[i] = "Event dispatch click failed: e"

\* C34: when the cascade runs on a record with a selector and the evaluation
\* of strategy 5 does not raise, click returns the 'Clicked on element'
\* string: an earlier strategy succeeded, or strategy 5 was evaluated and is
\* counted as a success whether or not its script dispatched an event.
C34_EventCountsUnlessRaised ==
    (/\ CascadeRan
     /\ Get(click_log.element, "cssSelector", "") # ""
     /\ ~EventRaised)
    => /\ tool_result.fmt = ClickedFmt
       /\ tool_result.type = click_log.element.type
       /\ tool_result.text = click_log.element.text

\* A click whose five strategies all reported a failure, the last one by a
\* script that found no element, and which returned the success string.
C34_Witness ==
    /\ CascadeRan
    /\ Len(click_log.attempts) = 5
    /\ click_log.attempts[5] = "event"
    /\ \A i \in DOMAIN click_log.reports : click_log.reports[i] = "failure"
    /\ ~EventRaised
    /\ tool_result.fmt = ClickedFmt

\* The response of the current iteration is a provider's error message.
ProviderFailed ==
    /\ response # None
    /\ response.content.fmt = "Error calling provider: e"

\* C35: when the provider call fails, the response is an assistant message
\* with the error text and no tool call, the loop ends in DONE at that
\* iteration with the error text as output, and with a memory attached the
\* exchange is recorded as a successful task.
C35_ProviderFailureEndsDone ==
    ProviderFailed =>
        /\ response.role = "assistant"
        /\ response.tool_calls = <<>>
        /\ pc = "returned"
        /\ outcome = "DONE"
        /\ result.output = response.content
        /\ result.messages[Len(result.messages)] = response
        /\ iteration = llm_calls
        /\ memory =>
              /\ Len(exchanges) = 1
              /\ exchanges[1].success
              /\ task_history # <<>>
              /\ task_history[Len(task_history)] =
                    [task |-> Text(InputText), result |-> response.content,
                     success |-> TRUE]

\* A provider call that fails at the second iteration, after a turn with a
\* tool call, on an executor with a memory.
C35_Witness ==
    /\ ProviderFailed
    /\ memory
    /\ llm_calls = 2
    /\ tool_invocations # <<>>
    /\ outcome = "DONE"
    /\ task_history[Len(task_history)].success

\* This step is the return of invoke.
Returns == pc # "returned" /\ pc' = "returned"

\* With a memory attached, the step at which invoke returns adds one task
\* record, whose flag tells DONE from MAX_ITERATIONS_REACHED and whose result
\* is the returned output, and counts one interaction; no other step touches
\* the task history or the interaction count.
OneTaskPerReturn ==
    memory =>
        IF Returns
        THEN /\ Len(task_history') = Len(task_history) + 1
             /\ SubSeq(task_history', 1, Len(task_history)) = task_history
             /\ interaction_count' = interaction_count + 1
             /\ outcome' \in {"DONE", "MAX_ITERATIONS_REACHED"}
             /\ task_history'[Len(task_history')].success = (outcome' = "DONE")
             /\ task_history'[Len(task_history')].result = result'.output
             /\ task_history'[Len(task_history')].task = result'.input
        ELSE UNCHANGED <<task_history, interaction_count>>

\* C36: with Session Memory attached, every invoke that returns adds exactly
\* one task record and increments the interaction count by exactly one; the
\* record's success flag is true iff the loop ended in DONE, false iff it
\* ended at the iteration ceiling, and its result is the returned output.
C36_OneTaskPerInvoke == [][OneTaskPerReturn]_vars

\* An invocation on a memory that already held a task, ended at the ceiling
\* after a turn of tool calls.
C36_Witness ==
    /\ memory
    /\ pc = "returned"
    /\ outcome = "MAX_ITERATIONS_REACHED"
    /\ llm_calls >= 1
    /\ Len(task_history) = 2
    /\ task_history[1].success
    /\ ~task_history[2].success
    /\ task_history[2].result = result.output
    /\ interaction_count = 2

\* C37: on an executor whose memory was empty or absent, stream driven by
\* the responses invoke was given never waits for a response invoke did not
\* ask for, and when it returns it has made the same inference calls with
\* the same histories, invoked the same tools in the same order and built
\* the same history; it emitted one event per inference call, each holding
\* that call's response, at most max_iterations of them, and left the
\* Session Memory as it found it.
C37_StreamMatchesInvoke ==
    (conv_start = <<>> /\ stream.pc # "idle") =>
        /\ Mem = stream.mem
        /\ memory_reads = (IF memory THEN 1 ELSE 0)
        /\ Len(exchanges) = (IF memory THEN 1 ELSE 0)
        /\ Len(stream.results) = Len(stream.llm_seen)
        /\ Len(stream.results) <= max_iterations
        /\ IsPrefix(stream.messages, messages)
        /\ IsPrefix(stream.llm_seen, llm_seen)
        /\ IsPrefix(stream.tool_invocations, tool_invocations)
        /\ (stream.pc = "loop" /\ LoopContinues(stream.iteration, max_iterations))
              => Len(stream.llm_seen) < llm_calls
        /\ stream.pc = "returned" =>
              /\ stream.messages = messages
              /\ stream.llm_seen = llm_seen
              /\ stream.tool_invocations = tool_invocations
              /\ Len(stream.results) = llm_calls
              /\ \A k \in DOMAIN stream.results :
                    stream.results[k] = [messages |-> <<Responses(messages)[k]>>]

\* stream returned after two inference calls and a tool invocation, on an
\* executor with a memory that was empty when invoke was called.
C37_Witness ==
    /\ stream.pc = "returned"
    /\ memory
    /\ conv_start = <<>>
    /\ Len(stream.results) = 2
    /\ stream.tool_invocations # <<>>
    /\ stream.messages = messages
    /\ outcome = "DONE"

\* The last call was keyboard_action on a sequence of several keys.
KeySequenceRan ==
    /\ input_log # None
    /\ input_log.op = "keyboard_action"
    /\ Len(input_log.input) > 1

\* The positions of the sequence whose key is not valid.
InvalidPositions ==
    {i \in DOMAIN input_log.input : ~ValidKey(NormalizeKey(input_log.input[i]))}

\* The positions whose key was pressed, in the order of the presses.
PressedPositions ==
    LET presses == SelectSeq(input_log.calls, LAMBDA c : c.call = "press")
    IN  [j \in 1..Len(presses) |-> presses[j].at]

\* C38: keyboard_action on a key sequence checks and presses the keys one at
\* a time in order. While no keyboard call raises: if the key at position i
\* is the first invalid one, the error string naming it is returned and
\* exactly the keys at positions 1..i-1 have been pressed, once each and in
\* order; if every key is valid, each is pressed exactly once in order and
\* the sequence string is returned. A keyboard call that raises ends the
\* sequence there with the string of the outer handler.
C38_KeySequenceNotAtomic ==
    KeySequenceRan =>
        /\ \A j \in DOMAIN PressedPositions : PressedPositions[j] = j
        /\ \A i \in InvalidPositions : Len(PressedPositions) < i
        /\ ~input_log.raised =>
              IF InvalidPositions = {}
              THEN /\ Len(PressedPositions) = Len(input_log.input)
                   /\ tool_result.fmt = "Executed key sequence: results"
                   /\ Len(tool_result.results) = Len(input_log.input)
              ELSE /\ Len(PressedPositions) + 1 = Least(InvalidPositions)
                   /\ tool_result =
                         InvalidKey(NormalizeKey(
                            input_log.input[Least(InvalidPositions)]))
        /\ input_log.raised =>
              tool_result = [fmt |-> "Error with keyboard action: e"]

\* A sequence whose second key is not valid: the first key was pressed, the
\* error names the second.
C38_Witness ==
    /\ KeySequenceRan
    /\ ~input_log.raised
    /\ Len(input_log.input) = MaxKeys
    /\ InvalidPositions = {2}
    /\ PressedPositions = <<1>>
    /\ tool_result.fmt # "Executed key sequence: results"

\* The last call was scroll and its position script returned.
ScrollInfoRead ==
    /\ input_log # None
    /\ input_log.op = "scroll"
    /\ input_log.raise_at # 1

\* The direction of the last scroll is "down" or none of the four.
DownLike == input_log.direction \notin {"up", "top", "bottom"}

\* C39: scroll keeps the offset it asks for inside the page. For "down", and
\* for a direction that is none of the four, from offset y of a page whose
\* largest offset is maxY: no scroll command is sent when y >= maxY - 10;
\* otherwise the command scrolls by min(viewportHeight, maxY - y), so that
\* the offset asked for is at most maxY. For "up": no command when y <= 10;
\* otherwise the command scrolls back by min(viewportHeight, y), so that the
\* offset asked for is at least 0. It is the only command when no call to
\* the page raises.
C39_ScrollStaysInPage ==
    ScrollInfoRead =>
        LET y == input_log.info.currentY
            maxY == input_log.info.maxY
            viewportHeight == input_log.info.viewportHeight
            commands == input_log.commands
        IN  /\ (DownLike /\ y >= maxY - 10) => commands = <<>>
            /\ (DownLike /\ y < maxY - 10) =>
                  /\ commands # <<>>
                  /\ commands[1].call = "scrollBy"
                  /\ "dy" \in DOMAIN commands[1]
                  /\ commands[1].dy =
                        (IF viewportHeight <= maxY - y THEN viewportHeight
                         ELSE maxY - y)
                  /\ y + commands[1].dy <= maxY
                  /\ input_log.raise_at = 0 => Len(commands) = 1
            /\ (input_log.direction = "up" /\ y <= 10) => commands = <<>>
            /\ (input_log.direction = "up" /\ y > 10) =>
                  /\ commands # <<>>
                  /\ commands[1].call = "scrollBy"
                  /\ "dy" \in DOMAIN commands[1]
                  /\ 0 - commands[1].dy =
                        (IF viewportHeight <= y THEN viewportHeight ELSE y)
                  /\ y + commands[1].dy >= 0
                  /\ input_log.raise_at = 0 => Len(commands) = 1

\* A scroll down from an offset with less than one viewport left below it:
\* the command scrolls by what is left.
C39_Witness ==
    /\ ScrollInfoRead
    /\ input_log.direction = "down"
    /\ input_log.raise_at = 0
    /\ input_log.info.maxY - input_log.info.currentY
           < input_log.info.viewportHeight
    /\ input_log.commands =
           <<[call |-> "scrollBy",
              dy |-> input_log.info.maxY - input_log.info.currentY]>>
    /\ tool_result = [fmt |-> "Scrolled down and reached the bottom of the page"]

====
